---------------------------- MODULE Spec2Model ----------------------------
(***************************************************************************)
(* A model of slang's four-state arbitrary-precision integer SVInt         *)
(* (source/numeric/SVInt.cpp).                                             *)
(*                                                                         *)
(* A 64-bit machine word is the set of its set bit positions, a subset of  *)
(* 0..63; an unbounded natural number is likewise the finite set of its    *)
(* set bit positions.  An SVInt is the record                              *)
(*   [bitWidth, signFlag, unknownFlag, val, pVal]                          *)
(* where val is the inline word (the active member of the union iff        *)
(* isSingleWord) and pVal is the heap buffer, a sequence of words;         *)
(* pVal[i] of the source is x.pVal[i + 1] here.                            *)
(***************************************************************************)
EXTENDS Integers, Sequences, FiniteSets, TLC

VARIABLES
    a,      \* left operand / receiver 
    b,      \* right operand
    env,    \* what this run's undefined reads produce (see ReadVal, WildWord)
    text,   \* the literal text being parsed / the text toString produced
    op,     \* the operation that produced res ("init" before any)
    arg,    \* the arguments of the operation that are not a or b
    res,    \* the result of the operation
    analyzedScopes,    \* AnalysisManager: the concurrent map from scopes
    tasks,             \* the state of the analysis task of each scope
    started,           \* how many tasks were detached for each scope
    asyncCalls,        \* how many times analyzeScopeAsync was called for each scope
    pendingException,  \* AnalysisManager::pendingException
    caller             \* where the thread that owns the manager is

\* the state of the operations on SVInt
svVars == <<a, b, env, text, op, arg, res>>

\* the state of the AnalysisManager
amVars == <<analyzedScopes, tasks, started, asyncCalls, pendingException, caller>>

vars == <<svVars, amVars>>

-----------------------------------------------------------------------------
(* Words and naturals as sets of bit positions *)

BITS_PER_WORD == 64

WordBits == 0 .. (BITS_PER_WORD - 1)

UINT64_MAX == WordBits

\* the same set, enumerated (unions and differences are otherwise kept symbolic)
E(S) == {i : i \in S}

BXor(x, y) == E((x \ y) \cup (y \ x))

BAnd(x, y) == E(x \cap y)

BOr(x, y) == E(x \cup y)

BAndNot(x, y) == E(x \ y)

ShiftUp(x, k) == {i + k : i \in x}

ShiftDown(x, k) == {i - k : i \in {j \in x : j >= k}}

Low(x, n) == {i \in x : i < n}

\* arithmetic takes a natural number in chunks of a quarter of a word, each chunk
\* an integer below ChunkSize
ChunkBits == BITS_PER_WORD \div 4

ChunkSize == 2 ^ ChunkBits

\* the greatest element of a non-empty set of naturals
Greatest(S) == CHOOSE k \in S : \A m \in S : m <= k

\* the index of the highest chunk of S that is not empty (0 for the empty set)
TopChunk(S) == IF S = {} THEN 0 ELSE Greatest({i \div ChunkBits : i \in S})

\* 1 + index of the highest set bit, 0 for zero
BitLen(S) ==
    LET within(top) == 1 + Greatest({i \in S : i \div ChunkBits = top})
    IN IF S = {} THEN 0 ELSE within(TopChunk(S))

\* the value of chunk k of S: its bits, each with its weight, added up
Chunk(S, k) ==
    LET sum(w) == (((w[0] + w[1]) + (w[2] + w[3])) + ((w[4] + w[5]) + (w[6] + w[7])))
                + (((w[8] + w[9]) + (w[10] + w[11]))
                      + ((w[12] + w[13]) + (w[14] + w[15])))
    IN sum([i \in 0 .. (ChunkBits - 1) |->
               IF (k * ChunkBits + i) \in S THEN 2 ^ i ELSE 0])

\* no model value has more bits than this
BitCap == 511

\* the carries of x + y by parallel prefix: g are the positions that generate a
\* carry, p those that propagate one, over spans of d positions
RECURSIVE Carries(_, _, _)
Carries(g, p, d) ==
    IF d > BitCap \/ p = {} \/ g # g THEN g
    ELSE Carries(BOr(g, BAnd(p, ShiftUp(g, d))), BAnd(p, ShiftUp(p, d)), 2 * d)

\* x + y over the naturals
BAdd(x, y) ==
    IF y = {} THEN x
    ELSE BXor(BXor(x, y), ShiftUp(Carries(BAnd(x, y), BXor(x, y), 1), 1))

\* x < y over the naturals
BLess(x, y) == LET d == BXor(x, y) IN d # {} /\ (BitLen(d) - 1) \in y

\* (x - y) mod 2^n
BSubMod(x, y, n) == Low(BAdd(BAdd(Low(x, n), BAndNot(0 .. (n - 1), y)), {0}), n)

\* x * y over the naturals: one shifted addend per set bit of y, the bits of y
\* taken by bisection of lo..hi
RECURSIVE MulIn(_, _, _, _)
MulIn(x, y, lo, hi) ==
    IF y = {} THEN {}
    ELSE IF lo = hi THEN ShiftUp(x, lo)
    ELSE LET mid == (lo + hi) \div 2
         IN BAdd(MulIn(x, {i \in y : i <= mid}, lo, mid),
                 MulIn(x, {i \in y : i > mid}, mid + 1, hi))

BMul(x, y) == IF x = {} \/ y = {} THEN {} ELSE MulIn(x, y, 0, BitLen(y) - 1)

\* one step of restoring long division of x by y, for bit i of x, over
\* st = <<quotient bits, remainder>>
DivStep(x, y, i, st) ==
    LET shifted(r) == IF BLess(r, y) THEN <<st[1], r>>
                      ELSE <<BOr(st[1], {i}), BSubMod(r, y, BitLen(r))>>
    IN shifted(BOr(ShiftUp(st[2], 1), IF i \in x THEN {0} ELSE {}))

\* the steps for the bits hi .. lo of x, the upper half of the bits first
RECURSIVE DivIn(_, _, _, _, _)
DivIn(x, y, lo, hi, st) ==
    IF lo > hi \/ st # st THEN st
    ELSE IF lo = hi THEN DivStep(x, y, lo, st)
    ELSE DivIn(x, y, lo, (lo + hi) \div 2,
               DivIn(x, y, ((lo + hi) \div 2) + 1, hi, st))

\* <<x div y, x mod y>> over the naturals (y # 0): the bits of x above the
\* quotient's are below y and start the remainder
BDivMod(x, y) ==
    LET steps(n) == DivIn(x, y, 0, n - 1, <<{}, ShiftDown(x, n)>>)
    IN IF BLess(x, y) THEN <<{}, x>> ELSE steps(BitLen(x) - BitLen(y) + 1)

\* a small natural number as a bit set, and back
NatBits(n) == {i \in 0 .. 30 : (n \div 2 ^ i) % 2 = 1}

BitsNat(S) ==
    LET value(c) == c[0] + ChunkSize * c[1]
    IN value([k \in 0 .. 1 |-> Chunk(S, k)])

\* 64-bit word arithmetic (wraps)
WAdd(x, y) == Low(BAdd(x, y), BITS_PER_WORD)
WSub(x, y) == BSubMod(x, y, BITS_PER_WORD)
WMul(x, y) == Low(BMul(x, y), BITS_PER_WORD)
WShl(x, k) == Low(ShiftUp(x, k), BITS_PER_WORD)
WShr(x, k) == ShiftDown(x, k)
WNot(x) == BAndNot(WordBits, x)
\* (int64_t)x >> k
WSar(x, k) == BOr(ShiftDown(x, k),
                  IF (BITS_PER_WORD - 1) \in x
                  THEN (BITS_PER_WORD - k) .. (BITS_PER_WORD - 1) ELSE {})


-----------------------------------------------------------------------------
(* Storage layer *)

\* SVInt::getNumWords(bits, unknown)
getNumWords(bits, unknown) ==
    ((bits + BITS_PER_WORD - 1) \div BITS_PER_WORD) * (IF unknown THEN 2 ELSE 1)

NumWords(x) == getNumWords(x.bitWidth, x.unknownFlag)

\* SVInt::isSingleWord
isSingleWord(x) == x.bitWidth <= BITS_PER_WORD /\ ~x.unknownFlag

whichWord(i) == i \div BITS_PER_WORD

maskBit(i) == {i % BITS_PER_WORD}

\* a value stored inline
Inline(bits, signed, word) ==
    [bitWidth |-> bits, signFlag |-> signed, unknownFlag |-> FALSE,
     val |-> word, pVal |-> <<>>]

\* a value stored in a heap buffer
Heap(bits, signed, unknown, words) ==
    [bitWidth |-> bits, signFlag |-> signed, unknownFlag |-> unknown,
     val |-> {}, pVal |-> words]

ZeroWords(n) == [i \in 1 .. n |-> {}]

\* reading the val member of the union: of a heap value it is the bits of pVal
ReadVal(x) == IF isSingleWord(x) THEN x.val ELSE env.ptr

\* a load through an address that is not a word of a buffer of the value
\* (beyond its end, or the inline word taken for a pointer)
WildWord == env.mem

\* such a load at word offset i: different offsets are different locations
WildAt(i) == IF i = 0 THEN env.mem ELSE env.mem2

\* x.pVal[i] as the source indexes it
P(x, i) == IF ~isSingleWord(x) /\ i < Len(x.pVal) THEN x.pVal[i + 1] ELSE WildAt(i)

\* x.getRawData()[i]
Raw(x, i) == IF isSingleWord(x) THEN (IF i = 0 THEN x.val ELSE WildAt(i)) ELSE P(x, i)

\* the bits of words[from + 1 .. from + n] as one natural number
PlaneOf(words, from, n) ==
    E(UNION {ShiftUp(words[from + k], (k - 1) * BITS_PER_WORD) : k \in 1 .. n})

\* the n words of a natural number
WordsOf(bits, n) ==
    [k \in 1 .. n |->
        ShiftDown({i \in bits : i < k * BITS_PER_WORD}, (k - 1) * BITS_PER_WORD)]

\* clearUnusedBits that clears nothing
clearUnusedBitsNot(x) == x

\* SVInt::clearUnusedBits
clearUnusedBits(x) ==
    LET wordBits == x.bitWidth % BITS_PER_WORD
        mask == WShr(UINT64_MAX, BITS_PER_WORD - wordBits)
        top == NumWords(x)
        vtop == getNumWords(x.bitWidth, FALSE)
    IN IF wordBits = 0 THEN x
       ELSE IF isSingleWord(x) THEN [x EXCEPT !.val = BAnd(@, mask)]
       ELSE LET p1 == [x.pVal EXCEPT ![top] = BAnd(@, mask)]
            IN [x EXCEPT !.pVal =
                   IF x.unknownFlag THEN [p1 EXCEPT ![vtop] = BAnd(@, mask)] ELSE p1]

\* slang::countLeadingZeros64
countLeadingZeros64(w) == BITS_PER_WORD - BitLen(w)

\* SVInt::getTopWordMask: <<bitsInMsw, mask>>
getTopWordMask(x) ==
    LET bitsInMsw == x.bitWidth % BITS_PER_WORD
    IN IF bitsInMsw # 0 THEN <<bitsInMsw, 0 .. (bitsInMsw - 1)>>
       ELSE <<BITS_PER_WORD, UINT64_MAX>>

\* the loop of countLeadingZerosSlowCase over the words below the top one
RECURSIVE clzBelow(_, _, _)
clzBelow(x, i, count) ==
    IF i <= 0 THEN count
    ELSE IF P(x, i - 1) = {} THEN clzBelow(x, i - 1, count + BITS_PER_WORD)
    ELSE count + countLeadingZeros64(P(x, i - 1))

\* SVInt::countLeadingZerosSlowCase
countLeadingZerosSlowCase(x) ==
    LET tm == getTopWordMask(x)
        i == NumWords(x)
        part == BAnd(P(x, i - 1), tm[2])
    IN IF part # {}
       THEN countLeadingZeros64(part) - (BITS_PER_WORD - tm[1])
       ELSE clzBelow(x, i - 1, tm[1])

\* SVInt::countLeadingZeros
countLeadingZeros(x) ==
    IF isSingleWord(x)
    THEN countLeadingZeros64(x.val) - (BITS_PER_WORD - x.bitWidth)
    ELSE countLeadingZerosSlowCase(x)

\* SVInt::getActiveBits
getActiveBits(x) == x.bitWidth - countLeadingZeros(x)

\* checkUnknown with the downgrade left out: the flag stays as it was
checkUnknownKeepsFlag(x) == x

\* SVInt::checkUnknown
checkUnknown(x) ==
    IF ~x.unknownFlag \/ countLeadingZeros(x) < x.bitWidth THEN x
    ELSE LET words == getNumWords(x.bitWidth, FALSE)
         IN IF words = 1
            THEN Inline(x.bitWidth, x.signFlag, x.pVal[1])
            ELSE Heap(x.bitWidth, x.signFlag, FALSE, SubSeq(x.pVal, 1, words))

\* SVInt::initSlowCase(uint64_t)
initSlowCase(bits, value, signed) ==
    LET words == getNumWords(bits, FALSE)
    IN Heap(bits, signed, FALSE,
            [i \in 1 .. words |->
                IF i = 1 THEN value
                ELSE IF signed /\ (BITS_PER_WORD - 1) \in value THEN UINT64_MAX
                ELSE {}])

\* SVInt::SVInt(bitwidth_t bits, uint64_t value, bool isSigned)
SVInt(bits, value, signed) ==
    clearUnusedBits(IF bits <= BITS_PER_WORD
                    THEN Inline(bits, signed, value)
                    ELSE initSlowCase(bits, value, signed))

\* SVInt::allocZeroed
allocZeroed(bits, signed, unknown) ==
    Heap(bits, signed, unknown, ZeroWords(getNumWords(bits, unknown)))

\* SVInt::setAllX
setAllX(x) ==
    LET words == getNumWords(x.bitWidth, FALSE)
    IN clearUnusedBits(Heap(x.bitWidth, x.signFlag, TRUE,
           [i \in 1 .. 2 * words |-> IF i <= words THEN {} ELSE UINT64_MAX]))

\* SVInt::setAllZ
setAllZ(x) ==
    LET words == getNumWords(x.bitWidth, TRUE)
    IN clearUnusedBits(Heap(x.bitWidth, x.signFlag, TRUE,
           [i \in 1 .. words |-> UINT64_MAX]))

\* SVInt::setAllZeros
setAllZeros(x) ==
    IF isSingleWord(x) THEN [x EXCEPT !.val = {}]
    ELSE IF x.unknownFlag THEN SVInt(x.bitWidth, {}, x.signFlag)
    ELSE [x EXCEPT !.pVal = ZeroWords(NumWords(x))]

\* SVInt::setAllOnes
setAllOnes(x) ==
    LET words == getNumWords(x.bitWidth, FALSE)
    IN clearUnusedBits(
           IF x.bitWidth <= BITS_PER_WORD
           THEN Inline(x.bitWidth, x.signFlag, UINT64_MAX)
           ELSE Heap(x.bitWidth, x.signFlag, FALSE, [i \in 1 .. words |-> UINT64_MAX]))

\* createFillX with the fill left out: a known zero of the width
createFillXUnfilled(bits, signed) == SVInt(bits, {}, signed)

\* SVInt::createFillX
createFillX(bits, signed) == setAllX(Heap(bits, signed, TRUE, <<>>))

\* SVInt::createFillZ
createFillZ(bits, signed) == setAllZ(Heap(bits, signed, TRUE, <<>>))

-----------------------------------------------------------------------------
(* The four-state reading of a value *)

\* the value plane as a natural number
ValueBits(x) ==
    IF isSingleWord(x) THEN x.val
    ELSE PlaneOf(x.pVal, 0, getNumWords(x.bitWidth, FALSE))

\* the unknown plane as a natural number (empty when there is none)
UnknownBits(x) ==
    IF ~x.unknownFlag THEN {}
    ELSE LET w == getNumWords(x.bitWidth, FALSE) IN PlaneOf(x.pVal, w, w)

\* SVInt::hasUnknown
hasUnknown(x) == x.unknownFlag

\* the value the literal W'b... with value plane v and unknown plane u parses to
Lit(bits, signed, v, u) ==
    LET w == getNumWords(bits, FALSE)
    IN IF u # {} THEN Heap(bits, signed, TRUE, WordsOf(v, w) \o WordsOf(u, w))
       ELSE IF bits <= BITS_PER_WORD THEN Inline(bits, signed, v)
       ELSE Heap(bits, signed, FALSE, WordsOf(v, w))

-----------------------------------------------------------------------------
(* Width unification *)

\* signExtendCopy (SVIntHelpers.h): the plane of oldBits bits in input, its top
\* bit replicated through the newWords words of output
signExtendCopy(input, oldBits, newWords) ==
    WordsOf(BOr(Low(input, oldBits),
                IF (oldBits - 1) \in input
                THEN oldBits .. (newWords * BITS_PER_WORD - 1) ELSE {}),
            newWords)

\* signExtend(const SVInt&, bitwidth_t)
signExtend(value, bits) ==
    IF bits <= BITS_PER_WORD /\ ~value.unknownFlag
    THEN LET n1 == WShl(ReadVal(value), BITS_PER_WORD - value.bitWidth)
             n2 == WSar(n1, bits - value.bitWidth)
         IN SVInt(bits, WShr(n2, BITS_PER_WORD - bits), value.signFlag)
    ELSE LET oldWords == getNumWords(value.bitWidth, FALSE)
             newWords == getNumWords(bits, FALSE)
             data == signExtendCopy(
                         PlaneOf([i \in 1 .. oldWords |-> Raw(value, i - 1)], 0, oldWords),
                         value.bitWidth, newWords)
             unk == signExtendCopy(
                         PlaneOf([i \in 1 .. oldWords |-> P(value, oldWords + i - 1)],
                                 0, oldWords),
                         value.bitWidth, newWords)
         IN clearUnusedBits(Heap(bits, value.signFlag, value.unknownFlag,
                                 IF value.unknownFlag THEN data \o unk ELSE data))

\* zeroExtend(const SVInt&, bitwidth_t)
zeroExtend(value, bits) ==
    IF bits <= BITS_PER_WORD /\ ~value.unknownFlag
    THEN SVInt(bits, ReadVal(value), value.signFlag)
    ELSE LET valueWords == getNumWords(value.bitWidth, FALSE)
             newWords == getNumWords(bits, FALSE)
             total == getNumWords(bits, value.unknownFlag)
         IN Heap(bits, value.signFlag, value.unknownFlag,
                 [i \in 1 .. total |->
                     IF i <= valueWords THEN Raw(value, i - 1)
                     ELSE IF value.unknownFlag /\ i > newWords
                                               /\ i - newWords <= valueWords
                     THEN Raw(value, i - newWords - 1 + valueWords)
                     ELSE {}])

\* extend(const SVInt&, bitwidth_t, bool)
extend(value, bits, sign) ==
    IF sign THEN signExtend(value, bits) ELSE zeroExtend(value, bits)

\* the left operand as every binary operator widens it before operating
UnifyL(x, y) ==
    IF x.bitWidth < y.bitWidth
    THEN extend(x, y.bitWidth, x.signFlag /\ y.signFlag) ELSE x

\* the right operand as every binary operator widens it before operating
UnifyR(x, y) ==
    IF x.bitWidth > y.bitWidth
    THEN extend(y, x.bitWidth, x.signFlag /\ y.signFlag) ELSE y

-----------------------------------------------------------------------------
(* Outcomes other than a value *)

\* the run ended in a fault (an invalid load, or the stack exhausted)
Crashed == [crashed |-> TRUE]

IsCrash(r) == "crashed" \in DOMAIN r

\* logic_t results are "0", "1", "x"; "crash" when the run ended in a fault
LNot(l) == IF l = "1" THEN "0" ELSE IF l = "0" THEN "1" ELSE l

LOr(l, r) ==
    IF l = "crash" \/ r = "crash" THEN "crash"
    ELSE IF l = "1" \/ r = "1" THEN "1"
    ELSE IF l = "0" /\ r = "0" THEN "0" ELSE "x"

LBool(c) == IF c THEN "1" ELSE "0"

None == [kind |-> "none"]

\* the outcome of an operation that returns an SVInt
Val(r) == IF IsCrash(r) THEN [kind |-> "crash"] ELSE [kind |-> "int", v |-> r]

\* the outcome of an operation that returns a logic_t
Logic(l) == IF l = "crash" THEN [kind |-> "crash"] ELSE [kind |-> "logic", l |-> l]

-----------------------------------------------------------------------------
(* Addition, subtraction, negation *)

\* operator+ with the carries left out
AddCarryless(x, y) ==
    LET sameWidth(l, r) ==
            LET n == NumWords(l)
            IN IF l.unknownFlag \/ r.unknownFlag THEN setAllX(l)
               ELSE clearUnusedBits(
                        IF isSingleWord(l) THEN [l EXCEPT !.val = BXor(@, ReadVal(r))]
                        ELSE [l EXCEPT !.pVal =
                                 WordsOf(BXor(PlaneOf(l.pVal, 0, n),
                                              PlaneOf(r.pVal, 0, n)), n)])
    IN sameWidth(UnifyL(x, y), UnifyR(x, y))

\* SVInt::operator+=
Add(x, y) ==
    LET \* the operator once both operands have one width
        sameWidth(l, r) ==
            LET n == NumWords(l)
            IN IF l.unknownFlag \/ r.unknownFlag THEN setAllX(l)
               ELSE clearUnusedBits(
                        IF isSingleWord(l) THEN [l EXCEPT !.val = WAdd(@, ReadVal(r))]
                        ELSE [l EXCEPT !.pVal =
                                 WordsOf(BAdd(PlaneOf(l.pVal, 0, n),
                                              PlaneOf(r.pVal, 0, n)), n)])
    IN sameWidth(UnifyL(x, y), UnifyR(x, y))

\* SVInt::operator-=
Sub(x, y) ==
    LET \* the operator once both operands have one width
        sameWidth(l, r) ==
            LET n == NumWords(l)
            IN IF l.unknownFlag \/ r.unknownFlag THEN setAllX(l)
               ELSE clearUnusedBits(
                        IF isSingleWord(l) THEN [l EXCEPT !.val = WSub(@, ReadVal(r))]
                        ELSE [l EXCEPT !.pVal =
                                 WordsOf(BSubMod(PlaneOf(l.pVal, 0, n),
                                                 PlaneOf(r.pVal, 0, n),
                                                 n * BITS_PER_WORD), n)])
    IN sameWidth(UnifyL(x, y), UnifyR(x, y))

\* SVInt::operator-()
Neg(x) ==
    IF x.unknownFlag THEN createFillX(x.bitWidth, x.signFlag)
    ELSE Sub(SVInt(x.bitWidth, {}, x.signFlag), x)

\* unary minus applied to the outcome of a call
NegOf(r) == IF IsCrash(r) THEN r ELSE Neg(r)

\* SVInt::operator[](int32_t), as the strings "0", "1", "x", "z"
Index(x, index) ==
    IF index < 0 \/ index >= x.bitWidth THEN "x"
    ELSE LET bit == BAnd(maskBit(index), Raw(x, whichWord(index))) # {}
             unknownBit ==
                 BAnd(maskBit(index),
                      P(x, whichWord(index) + getNumWords(x.bitWidth, FALSE))) # {}
         IN IF ~x.unknownFlag \/ ~unknownBit THEN LBool(bit)
            ELSE IF bit THEN "z" ELSE "x"

\* SVInt::isNegative
isNegative(x) == Index(x, x.bitWidth - 1) = "1"

\* SVInt::isOdd
isOdd(x) == 0 \in Raw(x, 0)

-----------------------------------------------------------------------------
(* Comparison *)

\* the word a load through the inline word of x, taken for a pointer, yields:
\* two loads through equal words read the same location
DerefInline(x, other) ==
    IF isSingleWord(other) /\ other.val # x.val THEN env.mem2 ELSE env.mem

\* the tail of equalsSlowCase: active bits, then word by word
equalsWords(x, y) ==
    LET differ == x.bitWidth # y.bitWidth
        lInline == differ /\ isSingleWord(x)     \* lval = &val
        rInline == differ /\ isSingleWord(y)     \* rval = &rhs.val
        lWild == ~lInline /\ isSingleWord(x)     \* lval = pVal of an inline value
        rWild == ~rInline /\ isSingleWord(y)
        lval(i) == IF lInline THEN Raw(x, i)
                   ELSE IF lWild THEN env.mem ELSE P(x, i)
        rval(i) == IF rInline THEN Raw(y, i)
                   ELSE IF rWild THEN (IF lWild THEN DerefInline(y, x) ELSE env.mem)
                   ELSE P(y, i)
        compare(a1, a2) ==
            IF a1 # a2 THEN "0"
            ELSE IF a1 = 0 THEN "1"
            ELSE IF (lWild \/ rWild) /\ env.fault THEN "crash"
            ELSE LBool(\A i \in 0 .. whichWord(a1 - 1) : lval(i) = rval(i))
    IN compare(getActiveBits(x), getActiveBits(y))

\* SVInt::equalsSlowCase
equalsSlowCase(x, y) ==
    IF x.unknownFlag \/ y.unknownFlag THEN "x"
    ELSE IF x.bitWidth # y.bitWidth /\ x.signFlag /\ y.signFlag
    THEN IF x.bitWidth < y.bitWidth
         THEN equalsWords(signExtend(x, y.bitWidth), y)
         ELSE equalsWords(signExtend(y, x.bitWidth), x)
    ELSE equalsWords(x, y)

\* SVInt::operator==
Eq(x, y) ==
    IF isSingleWord(x) /\ isSingleWord(y) /\ x.bitWidth = y.bitWidth
    THEN LBool(x.val = y.val)
    ELSE equalsSlowCase(x, y)

\* SVInt::operator!=
Ne(x, y) == LNot(Eq(x, y))

\* bitcpy (SVIntHelpers.h) on planes: length bits of src from srcOffset on are
\* written to dest from destOffset on
bitcpy(dest, destOffset, src, length, srcOffset) ==
    BOr(BAndNot(dest, destOffset .. (destOffset + length - 1)),
        {destOffset + i : i \in {k \in 0 .. (length - 1) : (srcOffset + k) \in src}})

\* setBits with nothing set
setBitsNone(dest, offset, length) == dest

\* setBits (SVIntHelpers.h) on a plane: length bits from offset on are set
setBits(dest, offset, length) == BOr(dest, offset .. (offset + length - 1))

\* SVInt::operator()(int32_t msb, int32_t lsb)
Slice(x, msb, lsb) ==
    LET selectWidth == msb - lsb + 1
        frontOOB == IF lsb < 0 THEN -lsb ELSE 0
        backOOB == IF msb >= x.bitWidth THEN msb - x.bitWidth + 1 ELSE 0
        anyOOB == frontOOB # 0 \/ backOOB # 0
        validSelectWidth == selectWidth - frontOOB - backOOB
        srcOffset == IF frontOOB # 0 THEN 0 ELSE lsb
        words == getNumWords(selectWidth, FALSE)
        data == bitcpy({}, frontOOB, ValueBits(x), validSelectWidth, srcOffset)
        copied == IF x.unknownFlag
                  THEN bitcpy({}, frontOOB, UnknownBits(x), validSelectWidth, srcOffset)
                  ELSE {}
        unknown == IF anyOOB
                   THEN setBits(setBits(copied, 0, frontOOB),
                                validSelectWidth + frontOOB, backOOB)
                   ELSE copied
        result == IF selectWidth > BITS_PER_WORD \/ x.unknownFlag \/ anyOOB
                  THEN Heap(selectWidth, x.signFlag, x.unknownFlag \/ anyOOB,
                            IF x.unknownFlag \/ anyOOB
                            THEN WordsOf(data, words) \o WordsOf(unknown, words)
                            ELSE WordsOf(data, words))
                  ELSE Inline(selectWidth, x.signFlag, data)
    IN IF msb < 0 \/ lsb >= x.bitWidth THEN createFillX(selectWidth, FALSE)
       ELSE IF isSingleWord(x) /\ ~anyOOB
       THEN SVInt(selectWidth,
                  BAnd(WShr(x.val, lsb),
                       IF selectWidth = BITS_PER_WORD THEN UINT64_MAX
                       ELSE Low(UINT64_MAX, selectWidth)),
                  FALSE)
       ELSE checkUnknown(clearUnusedBits(result))

\* exactlyEqual(const SVInt&, const SVInt&): "1" or "0" for the bool it returns
exactlyEqual(lhs, rhs) ==
    LET \* the memcmp of the two buffers once both operands have one width
        sameWidth(l, r) == LBool(\A i \in 0 .. (NumWords(l) - 1) : P(l, i) = P(r, i))
        known(e) == IF e = "crash" THEN "crash" ELSE LBool(e = "1")
    IN IF ~lhs.unknownFlag /\ ~rhs.unknownFlag THEN known(Eq(lhs, rhs))
       ELSE IF ~lhs.unknownFlag \/ ~rhs.unknownFlag THEN "0"
       ELSE sameWidth(UnifyL(lhs, rhs), UnifyR(lhs, rhs))

\* wildcardEqual with the unknown bits of the left operand not looked at
wildcardEqualRightOnly(lhs, rhs) ==
    LET sameWidth(l, r) ==
            LBool(\A i \in 0 .. (getNumWords(l.bitWidth, FALSE) - 1) :
                      BAndNot(Raw(l, i), P(r, i + getNumWords(l.bitWidth, FALSE)))
                          = BAndNot(P(r, i), P(r, i + getNumWords(l.bitWidth, FALSE))))
    IN IF ~rhs.unknownFlag THEN LBool(ValueBits(lhs) = ValueBits(rhs))
       ELSE sameWidth(UnifyL(lhs, rhs), UnifyR(lhs, rhs))

\* wildcardEqual(const SVInt&, const SVInt&)
wildcardEqual(lhs, rhs) ==
    LET \* the loop over the words once both operands have one width: the bits
        \* unknown on the right are masked out of both sides
        sameWidth(l, r) ==
            LBool(\A i \in 0 .. (NumWords(l) - 1) :
                      BAndNot(Raw(l, i), P(r, i + NumWords(l)))
                          = BAndNot(P(r, i), P(r, i + NumWords(l))))
    IN IF ~lhs.unknownFlag /\ ~rhs.unknownFlag THEN Eq(lhs, rhs)
       ELSE IF lhs.unknownFlag THEN "x"
       ELSE sameWidth(UnifyL(lhs, rhs), UnifyR(lhs, rhs))

\* SVInt::reductionOr
reductionOr(x) ==
    IF x.unknownFlag THEN "x"
    ELSE IF isSingleWord(x) THEN LBool(x.val # {})
    ELSE LBool(\E i \in 0 .. (NumWords(x) - 1) : P(x, i) # {})

\* SVInt::operator logic_t (SVInt.h): the condition as one four-state bit
toLogic(x) == reductionOr(x)

\* the value word of the loop of conditional: set where neither operand is
\* unknown and both are set
reconcile(l, r, unknown) == BAnd(BAndNot(l, unknown), r)

\* SVInt::conditional(condition, lhs, rhs)
conditional(condition, lhs, rhs) ==
    LET bothSigned == lhs.signFlag /\ rhs.signFlag
        unknownWord(l, r, i, words) ==
            BOr(BOr(IF l.unknownFlag THEN P(l, i + words) ELSE {},
                    IF r.unknownFlag THEN P(r, i + words) ELSE {}),
                BXor(Raw(l, i), Raw(r, i)))
        loop(l, r, words) ==
            clearUnusedBits(
                Heap(l.bitWidth, bothSigned, TRUE,
                     [k \in 1 .. (2 * words) |->
                         IF k <= words
                         THEN reconcile(Raw(l, k - 1), Raw(r, k - 1),
                                        unknownWord(l, r, k - 1, words))
                         ELSE unknownWord(l, r, k - words - 1, words)]))
        merged(l, r) == loop(l, r, getNumWords(l.bitWidth, FALSE))
        unknownCase(l, r, e) ==
            IF e = "crash" THEN Crashed ELSE IF e = "1" THEN r ELSE merged(l, r)
        sameWidth(c, l, r) ==
            IF c = "1" THEN l ELSE IF c = "0" THEN r
            ELSE unknownCase(l, r, exactlyEqual(l, r))
        unified(l, r) ==
            IF IsCrash(l) THEN l ELSE IF IsCrash(r) THEN r
            ELSE sameWidth(toLogic(condition), l, r)
    IN IF lhs.bitWidth = rhs.bitWidth
       THEN sameWidth(toLogic(condition), lhs, rhs)
       ELSE unified(UnifyL(lhs, rhs), UnifyR(lhs, rhs))

\* the loop of concatenate with every operand written at offset 0
RECURSIVE concatLoopInPlace(_, _, _, _)
concatLoopInPlace(operands, i, offset, planes) ==
    IF i = 0 THEN planes
    ELSE concatLoopInPlace(operands, i - 1, 0,
                    <<bitcpy(planes[1], 0, ValueBits(operands[i]),
                             operands[i].bitWidth, 0),
                      IF operands[i].unknownFlag
                      THEN bitcpy(planes[2], 0, UnknownBits(operands[i]),
                                  operands[i].bitWidth, 0)
                      ELSE planes[2]>>)

\* the loops of concatenate over the operands, last one first: the planes
\* <<data, unknown>> once operands 1 .. i are written from offset on
RECURSIVE concatLoop(_, _, _, _)
concatLoop(operands, i, offset, planes) ==
    IF i = 0 THEN planes
    ELSE concatLoop(operands, i - 1, offset + operands[i].bitWidth,
                    <<bitcpy(planes[1], offset, ValueBits(operands[i]),
                             operands[i].bitWidth, 0),
                      IF operands[i].unknownFlag
                      THEN bitcpy(planes[2], offset, UnknownBits(operands[i]),
                                  operands[i].bitWidth, 0)
                      ELSE planes[2]>>)

RECURSIVE totalWidth(_, _)
totalWidth(operands, i) ==
    IF i = 0 THEN 0 ELSE operands[i].bitWidth + totalWidth(operands, i - 1)

\* concatenate(span<SVInt const>)
concatenate(operands) ==
    LET bits == totalWidth(operands, Len(operands))
        unknownFlag == \E i \in 1 .. Len(operands) : operands[i].unknownFlag
        words == getNumWords(bits, unknownFlag)
        built(planes) ==
            IF words = 1 THEN SVInt(bits, planes[1], FALSE)
            ELSE [Heap(bits, FALSE, unknownFlag,
                       IF unknownFlag
                       THEN WordsOf(planes[1], words \div 2) \o WordsOf(planes[2], words \div 2)
                       ELSE WordsOf(planes[1], words))
                  EXCEPT !.val = IF words = 0 THEN env.ptr ELSE @]
    IN IF Len(operands) = 0 THEN SVInt(0, {}, FALSE)
       ELSE built(concatLoop(operands, Len(operands), 0, <<{}, {}>>))

\* how deep operator< may nest before the stack is exhausted
RecursionCap == 3

\* SVInt::operator<, at nesting depth d
RECURSIVE LessAt(_, _, _)
LessAt(x, y, d) ==
    IF d > RecursionCap THEN "crash"
    ELSE IF x.unknownFlag \/ hasUnknown(y) THEN "x"
    ELSE LET bothSigned == x.signFlag /\ y.signFlag
             \* -lhs > -rhs, operator> being !(a < b || a == b)
             greater(nl, nr) == LNot(LOr(LessAt(nl, nr, d + 1), Eq(nl, nr)))
             words(l, r, a1, a2) ==
                 IF a1 < a2 THEN "1"
                 ELSE IF a2 < a1 THEN "0"
                 \* a1 = a2 = 0: whichWord(a1 - 1) wraps to 67108863 and the loop
                 \* starts far beyond both buffers
                 ELSE IF a1 = 0
                 THEN IF env.fault THEN "crash"
                      ELSE IF env.mem = env.mem2 THEN "0"
                      ELSE LBool(BLess(env.mem, env.mem2))
                 \* from the top word down, the first differing word decides
                 ELSE LBool(BLess(PlaneOf(l.pVal, 0, whichWord(a1 - 1) + 1),
                                  PlaneOf(r.pVal, 0, whichWord(a1 - 1) + 1)))
             \* the operator once both operands have one width
             sameWidth(l, r) ==
                 IF bothSigned /\ isNegative(l)
                 THEN IF isNegative(r) THEN greater(Neg(l), Neg(r)) ELSE "1"
                 ELSE IF bothSigned /\ isNegative(r) THEN "0"
                 ELSE IF isSingleWord(l) THEN LBool(BLess(l.val, ReadVal(r)))
                 ELSE words(l, r, getActiveBits(l), getActiveBits(r))
         IN sameWidth(UnifyL(x, y), UnifyR(x, y))

Less(x, y) == LessAt(x, y, 0)

\* SVInt::operator<=, operator>, operator>= (SVInt.h)
LessEq(x, y) == LOr(Less(x, y), Eq(x, y))
Greater(x, y) == LNot(LessEq(x, y))
GreaterEq(x, y) == LNot(Less(x, y))

\* the SVInt an int / a bitwidth_t argument converts to
FromInt(n) == SVInt(32, NatBits(n), TRUE)
FromUInt(n) == SVInt(32, NatBits(n), FALSE)

-----------------------------------------------------------------------------
(* Multiplication and division *)

\* the number of words the active bits of x occupy
ActiveWords(x) ==
    LET words(bits) == IF bits = 0 THEN 0 ELSE whichWord(bits - 1) + 1
    IN words(getActiveBits(x))

\* the first n words of the value plane of x, as a natural number
RawPlane(x, n) == PlaneOf([i \in 1 .. n |-> Raw(x, i - 1)], 0, n)

\* SVInt::operator*=
Mul(x, y) ==
    LET \* mul (SVIntHelpers.h): the full product, destWords words long, of which
        \* the words that fit the result are copied
        product(l, r, lhsWords, rhsWords) ==
            LET destWords == lhsWords + rhsWords
                dst == WordsOf(BMul(RawPlane(l, lhsWords), RawPlane(r, rhsWords)),
                               destWords)
                wordsToCopy == IF destWords >= NumWords(l) THEN NumWords(l)
                               ELSE destWords
            IN IF lhsWords = 0 THEN l
               ELSE IF rhsWords = 0 THEN setAllZeros(l)
               ELSE clearUnusedBits([l EXCEPT !.pVal =
                        [i \in 1 .. NumWords(l) |->
                            IF i <= wordsToCopy THEN dst[i] ELSE {}]])
        \* the operator once both operands have one width
        sameWidth(l, r) ==
            IF l.unknownFlag \/ r.unknownFlag THEN setAllX(l)
            ELSE IF isSingleWord(l)
            THEN clearUnusedBits([l EXCEPT !.val = WMul(@, ReadVal(r))])
            ELSE product(l, r, ActiveWords(l), ActiveWords(r))
    IN sameWidth(UnifyL(x, y), UnifyR(x, y))

HALF == BITS_PER_WORD \div 2

\* the 32-bit half-word i of a natural number (SVInt::splitWords)
HalfWord(n, i) == ShiftDown({k \in n : k < (i + 1) * HALF}, i * HALF)

\* the number of half-words left once the leading zero half-words are dropped
HalfLen(n) == (BitLen(n) + HALF - 1) \div HALF

\* the loop of 64-by-32-bit divides divide runs when the divisor is one half-word:
\* <<q, rem>> after the half-words i .. 0 of u
RECURSIVE shortDivide(_, _, _, _, _)
shortDivide(u, divisor, i, q, rem) ==
    IF i < 0 THEN <<q, rem>>
    ELSE LET partial == BOr(ShiftUp(rem, HALF), HalfWord(u, i))
             qr == IF partial = {} THEN <<{}, {}>>
                   ELSE IF BLess(partial, divisor) THEN <<{}, Low(partial, HALF)>>
                   ELSE IF partial = divisor THEN <<{0}, {}>>
                   ELSE LET d == BDivMod(partial, divisor)
                        IN <<Low(d[1], HALF), Low(d[2], HALF)>>
         IN shortDivide(u, divisor, i - 1, BOr(q, ShiftUp(qr[1], i * HALF)), qr[2])

\* knuthDiv (SVIntHelpers.h): Knuth's Algorithm D, <<quotient, remainder>>
knuthDiv(u, v) == BDivMod(u, v)

\* SVInt::buildDivideResult
buildDivideResult(value, bitWidth, signed, numWords) ==
    IF numWords = 1 THEN SVInt(bitWidth, Low(value, BITS_PER_WORD), signed)
    ELSE LET z == SVInt(bitWidth, {}, signed)
             w == WordsOf(value, numWords)
         IN [z EXCEPT !.pVal = [i \in 1 .. Len(z.pVal) |->
                                   IF i <= numWords THEN w[i] ELSE z.pVal[i]]]

\* SVInt::divide: <<quotient, remainder>>
divide(lhs, lhsWords, rhs, rhsWords) ==
    LET bothSigned == lhs.signFlag /\ rhs.signFlag
        build(qr) == <<buildDivideResult(qr[1], lhs.bitWidth, bothSigned, lhsWords),
                       buildDivideResult(qr[2], rhs.bitWidth, bothSigned, rhsWords)>>
        halves(u, v, dividendWords, divisorWords) ==
            IF divisorWords = 1 THEN shortDivide(u, v, dividendWords - 1, {}, {})
            \* extraWords wraps below zero: the algorithm runs outside its arrays
            ELSE IF dividendWords < divisorWords THEN <<WildWord, WildWord>>
            ELSE knuthDiv(u, v)
        planes(u, v) == build(halves(u, v, HalfLen(u), HalfLen(v)))
    IN planes(RawPlane(lhs, lhsWords), RawPlane(rhs, rhsWords))

\* SVInt::udiv
udiv(lhs, rhs, bothSigned) ==
    LET words(lhsWords, rhsWords, lt) ==
            IF lhsWords = 0 THEN SVInt(lhs.bitWidth, {}, bothSigned)
            ELSE IF lt = "crash" THEN Crashed
            ELSE IF lt = "1" THEN SVInt(lhs.bitWidth, {}, bothSigned)
            ELSE IF lhsWords = 1 /\ rhsWords = 1
            THEN SVInt(lhs.bitWidth, BDivMod(P(lhs, 0), P(rhs, 0))[1], bothSigned)
            ELSE divide(lhs, lhsWords, rhs, rhsWords)[1]
        active(lhsWords, rhsWords) ==
            words(lhsWords, rhsWords,
                  IF lhsWords < rhsWords THEN "1" ELSE Less(lhs, rhs))
    IN IF isSingleWord(lhs)
       THEN SVInt(lhs.bitWidth, BDivMod(lhs.val, ReadVal(rhs))[1], bothSigned)
       ELSE active(ActiveWords(lhs), ActiveWords(rhs))

\* SVInt::urem
urem(lhs, rhs, bothSigned) ==
    LET words(lhsWords, rhsWords, lt) ==
            IF lhsWords = 0 THEN SVInt(lhs.bitWidth, {}, bothSigned)
            ELSE IF lt = "crash" THEN Crashed
            ELSE IF lt = "1" THEN lhs
            ELSE IF lhsWords = 1
            THEN SVInt(lhs.bitWidth, BDivMod(P(lhs, 0), P(rhs, 0))[2], bothSigned)
            ELSE divide(lhs, lhsWords, rhs, rhsWords)[2]
        active(lhsWords, rhsWords) ==
            words(lhsWords, rhsWords,
                  IF lhsWords < rhsWords THEN "1" ELSE Less(lhs, rhs))
    IN IF isSingleWord(lhs)
       THEN SVInt(lhs.bitWidth, BDivMod(lhs.val, ReadVal(rhs))[2], bothSigned)
       ELSE active(ActiveWords(lhs), ActiveWords(rhs))

\* a divisor that is never taken for zero
isZeroNever(r) == FALSE

\* rhs == 0 in operator/ and operator%, as a bool
isZero(r) == Eq(r, FromInt(0)) = "1"

\* SVInt::operator/: the division runs on magnitudes, udiv being told the operation
\* is signed exactly when an operand was negated, and the quotient is negated when
\* one operand was
Div(x, y) ==
    LET bothSigned == x.signFlag /\ y.signFlag
        flip(q, negate) == IF negate THEN NegOf(q) ELSE q
        magnitudes(l, r, negL, negR) ==
            flip(udiv(IF negL THEN Neg(l) ELSE l, IF negR THEN Neg(r) ELSE r,
                      negL \/ negR),
                 negL # negR)
        \* the operator once both operands have one width
        sameWidth(l, r) ==
            IF l.unknownFlag \/ r.unknownFlag \/ isZero(r)
            THEN createFillX(l.bitWidth, bothSigned)
            ELSE magnitudes(l, r, bothSigned /\ isNegative(l),
                            bothSigned /\ isNegative(r))
    IN sameWidth(UnifyL(x, y), UnifyR(x, y))

\* SVInt::operator%: as operator/, the remainder being negated when the left
\* operand was
Rem(x, y) ==
    LET bothSigned == x.signFlag /\ y.signFlag
        flip(q, negate) == IF negate THEN NegOf(q) ELSE q
        magnitudes(l, r, negL, negR) ==
            flip(urem(IF negL THEN Neg(l) ELSE l, IF negR THEN Neg(r) ELSE r,
                      negL \/ negR),
                 negL)
        \* the operator once both operands have one width
        sameWidth(l, r) ==
            IF l.unknownFlag \/ r.unknownFlag \/ isZero(r)
            THEN createFillX(l.bitWidth, bothSigned)
            ELSE magnitudes(l, r, bothSigned /\ isNegative(l),
                            bothSigned /\ isNegative(r))
    IN sameWidth(UnifyL(x, y), UnifyR(x, y))

-----------------------------------------------------------------------------
(* Bitwise operators *)

\* the new unknown word in the loops of operator&=, operator|=, operator^= and
\* xnor, from the unknown and value words of both operands
UnknownWord(kind, lu, lv, ru, rv) ==
    CASE kind = "&" -> BAnd(BAnd(BOr(lu, ru), BOr(lu, lv)), BOr(ru, rv))
      [] kind = "|" -> BOr(BAnd(lu, BOr(ru, WNot(rv))), BAnd(WNot(lv), ru))
      [] kind = "^" -> BOr(lu, ru)
      [] kind = "xnor" -> BOr(lu, ru)

\* the new value word in those loops, given the new unknown word u
ValueWord(kind, u, lv, rv) ==
    CASE kind = "&" -> BAnd(BAnd(WNot(u), lv), rv)
      [] kind = "|" -> BAnd(WNot(u), BOr(lv, rv))
      [] kind = "^" -> BAnd(WNot(u), BXor(lv, rv))
      [] kind = "xnor" -> BAnd(WNot(u), WNot(BXor(lv, rv)))

\* the new word when the left operand has no unknown plane
KnownWord(kind, lv, rv) ==
    CASE kind = "&" -> BAnd(lv, rv)
      [] kind = "|" -> BOr(lv, rv)
      [] kind = "^" -> BXor(lv, rv)
      [] kind = "xnor" -> WNot(BXor(lv, rv))

\* the loops of a bitwise compound assignment over the words of l, a heap value
BitwiseWords(l, r, kind) ==
    LET words == getNumWords(l.bitWidth, FALSE)
        unk == [i \in 1 .. words |->
                   UnknownWord(kind, P(l, i - 1 + words), P(l, i - 1),
                               P(r, i - 1 + words), P(r, i - 1))]
    IN IF l.unknownFlag
       THEN [i \in 1 .. 2 * words |->
                IF i > words THEN unk[i - words]
                ELSE ValueWord(kind, unk[i], P(l, i - 1), P(r, i - 1))]
       ELSE [i \in 1 .. words |-> KnownWord(kind, P(l, i - 1), P(r, i - 1))]

\* a bitwise compound assignment after width unification: the inline words are
\* combined, the word loops run otherwise; the loops load through rhs.pVal
\* whatever rhs is
BitwiseAssign(x, y, kind) ==
    LET sameWidth(l, r) ==
            IF isSingleWord(l)
            THEN clearUnusedBits([l EXCEPT !.val = KnownWord(kind, @, ReadVal(r))])
            ELSE IF isSingleWord(r) /\ env.fault THEN Crashed
            ELSE clearUnusedBits([l EXCEPT !.pVal = BitwiseWords(l, r, kind)])
    IN sameWidth(UnifyL(x, y), UnifyR(x, y))

\* SVInt::operator&=
And(x, y) == BitwiseAssign(x, y, "&")

\* SVInt::operator|=
Or(x, y) == BitwiseAssign(x, y, "|")

\* SVInt::operator^=
Xor(x, y) == BitwiseAssign(x, y, "^")

\* SVInt::xnor
xnor(x, y) == BitwiseAssign(x, y, "xnor")

\* SVInt::operator~
Not(x) ==
    LET words == getNumWords(x.bitWidth, FALSE)
    IN clearUnusedBits(
           IF isSingleWord(x) THEN [x EXCEPT !.val = BXor(@, UINT64_MAX)]
           ELSE [x EXCEPT !.pVal =
                    [i \in 1 .. NumWords(x) |->
                        IF i > words THEN x.pVal[i]
                        ELSE IF x.unknownFlag
                        THEN BAnd(BXor(x.pVal[i], UINT64_MAX), WNot(x.pVal[i + words]))
                        ELSE BXor(x.pVal[i], UINT64_MAX)]])

-----------------------------------------------------------------------------
(* Shifts *)

\* SVInt::as<bitwidth_t>() of a known value that fits
AsNat(x) == BitsNat(ValueBits(x))

\* shlFar / lshrFar / lshrNear (SVIntHelpers.h): one plane of numWords words moved
\* by amount bits
shlFar(words, from, amount, numWords) ==
    WordsOf(Low(ShiftUp(PlaneOf(words, from, numWords), amount),
                numWords * BITS_PER_WORD), numWords)

lshrFar(words, from, amount, numWords) ==
    WordsOf(ShiftDown(PlaneOf(words, from, numWords), amount), numWords)

\* SVInt::shl(bitwidth_t)
shlBy(x, amount) ==
    LET numWords == getNumWords(x.bitWidth, FALSE)
        data == shlFar(x.pVal, 0, amount, numWords)
    IN IF amount = 0 THEN x
       ELSE IF amount >= x.bitWidth THEN SVInt(x.bitWidth, {}, x.signFlag)
       ELSE IF isSingleWord(x) THEN SVInt(x.bitWidth, WShl(x.val, amount), x.signFlag)
       ELSE checkUnknown(clearUnusedBits(
                [x EXCEPT !.pVal = IF x.unknownFlag
                                   THEN data \o shlFar(x.pVal, numWords, amount, numWords)
                                   ELSE data]))

\* SVInt::shl(const SVInt&)
shl(x, rhs) ==
    IF hasUnknown(rhs) THEN createFillX(x.bitWidth, x.signFlag)
    ELSE IF GreaterEq(rhs, FromUInt(x.bitWidth)) = "1"
    THEN SVInt(x.bitWidth, {}, x.signFlag)
    ELSE shlBy(x, AsNat(rhs))

\* lshr(bitwidth_t) that moves nothing
lshrByNot(x, amount) == x

\* SVInt::lshr(bitwidth_t)
lshrBy(x, amount) ==
    LET numWords == getNumWords(x.bitWidth, FALSE)
        data == lshrFar(x.pVal, 0, amount, numWords)
    IN IF amount = 0 THEN x
       ELSE IF amount >= x.bitWidth THEN SVInt(x.bitWidth, {}, x.signFlag)
       ELSE IF isSingleWord(x) THEN SVInt(x.bitWidth, WShr(x.val, amount), x.signFlag)
       ELSE checkUnknown(
                [x EXCEPT !.pVal = IF x.unknownFlag
                                   THEN data \o lshrFar(x.pVal, numWords, amount, numWords)
                                   ELSE data])

\* SVInt::lshr(const SVInt&)
lshr(x, rhs) ==
    IF hasUnknown(rhs) THEN createFillX(x.bitWidth, x.signFlag)
    ELSE IF GreaterEq(rhs, FromUInt(x.bitWidth)) = "1"
    THEN SVInt(x.bitWidth, {}, x.signFlag)
    ELSE lshrBy(x, AsNat(rhs))

\* SVInt::ashr(bitwidth_t)
ashrBy(x, amount) ==
    LET contractedWidth == x.bitWidth - amount
        fill == IF GreaterEq(x, FromInt(0)) = "1" THEN {} ELSE UINT64_MAX
        \* the branch for a value of several words contracted to one word: word 0
        \* is sign-extended from contractedWidth, every other word is set from
        \* bit 63 of the val member
        manual(tmp) ==
            clearUnusedBits(Heap(x.bitWidth, x.signFlag, x.unknownFlag,
                [i \in 1 .. NumWords(x) |->
                    IF i = 1
                    THEN WSar(WShl(P(tmp, 0), BITS_PER_WORD - contractedWidth),
                              BITS_PER_WORD - contractedWidth)
                    ELSE IF (BITS_PER_WORD - 1) \in ReadVal(x) THEN {}
                    ELSE UINT64_MAX]))
        shifted(tmp) ==
            IF contractedWidth <= BITS_PER_WORD /\ NumWords(x) > 1 THEN manual(tmp)
            ELSE signExtend([tmp EXCEPT !.bitWidth = contractedWidth], x.bitWidth)
    IN IF ~x.signFlag THEN lshrBy(x, amount)
       ELSE IF amount = 0 THEN x
       ELSE IF amount >= x.bitWidth THEN SVInt(x.bitWidth, fill, x.signFlag)
       ELSE shifted(lshrBy(x, amount))

\* SVInt::ashr(const SVInt&)
ashr(x, rhs) ==
    IF ~x.signFlag THEN lshr(x, rhs)
    ELSE IF hasUnknown(rhs) THEN createFillX(x.bitWidth, x.signFlag)
    ELSE IF GreaterEq(rhs, FromUInt(x.bitWidth)) = "1"
    THEN SVInt(x.bitWidth,
               IF GreaterEq(x, FromInt(0)) = "1" THEN {} ELSE UINT64_MAX, x.signFlag)
    ELSE ashrBy(x, AsNat(rhs))

-----------------------------------------------------------------------------
(* Power *)

\* the words of x's value plane replaced by w where w is defined
SetRaw(x, w) ==
    IF isSingleWord(x) THEN [x EXCEPT !.val = IF Len(w) >= 1 THEN w[1] ELSE @]
    ELSE [x EXCEPT !.pVal = [i \in 1 .. Len(x.pVal) |->
                                IF i <= Len(w) THEN w[i] ELSE x.pVal[i]]]

\* the lambda mulReduce of modPow: the new value of its result argument
mulReduce(left, right, result) ==
    LET product(lhsWords, rhsWords) ==
            LET destWords == lhsWords + rhsWords
                scratch == BMul(RawPlane(left, lhsWords), RawPlane(right, rhsWords))
                n == IF destWords >= NumWords(result) THEN NumWords(result)
                     ELSE destWords
            IN clearUnusedBits(SetRaw(result, WordsOf(scratch, n)))
    IN product(ActiveWords(left), ActiveWords(right))

\* one pass of an exponent-bit loop of modPow over st = <<result, baseCopy>>;
\* the square is skipped on the last bit of the top word
powStep(st, bit, last) ==
    LET r1 == IF bit THEN mulReduce(st[1], st[2], st[1]) ELSE st[1]
    IN <<r1, IF last THEN st[2] ELSE mulReduce(st[2], st[2], st[2])>>

\* the passes for the bits lo..hi of the exponent plane e, in ascending order;
\* top is the last bit the loops visit
RECURSIVE powLoop(_, _, _, _, _)
powLoop(st, e, lo, hi, top) ==
    IF lo > hi \/ st # st THEN st
    ELSE IF lo = hi THEN powStep(st, lo \in e, lo = top)
    ELSE powLoop(powLoop(st, e, lo, (lo + hi) \div 2, top),
                 e, ((lo + hi) \div 2) + 1, hi, top)

\* SVInt::modPow
modPow(base, exponent, bothSigned) ==
    LET exponentWords == NumWords(exponent)
        e == RawPlane(exponent, exponentWords)
        lowBits == (exponentWords - 1) * BITS_PER_WORD
        \* the full loops over the lower words, then the top word until it is zero
        top == IF BitLen(e) > lowBits THEN BitLen(e) - 1 ELSE lowBits - 1
        st == powLoop(<<SVInt(base.bitWidth, {0}, FALSE), base>>, e, 0, top, 
                      IF BitLen(e) > lowBits THEN top ELSE -1)
    IN [st[1] EXCEPT !.signFlag = bothSigned]

\* SVInt::pow
pow(x, rhs) ==
    LET bothSigned == x.signFlag /\ rhs.signFlag
        lhsBits == getActiveBits(x)
        rhsBits == getActiveBits(rhs)
        one == SVInt(x.bitWidth, {0}, bothSigned)
        zero == SVInt(x.bitWidth, {}, bothSigned)
        ones == SVInt(x.bitWidth, UINT64_MAX, bothSigned)
    IN IF x.unknownFlag \/ rhs.unknownFlag THEN createFillX(x.bitWidth, bothSigned)
       ELSE IF lhsBits = 0
       THEN IF rhsBits = 0 THEN one
            ELSE IF rhs.signFlag /\ isNegative(rhs) THEN createFillX(x.bitWidth, bothSigned)
            ELSE zero
       ELSE IF rhsBits = 0 \/ lhsBits = 1 THEN one
       ELSE IF bothSigned /\ isNegative(x) /\ Eq(x, ones) = "1"
       THEN IF isOdd(rhs) THEN ones ELSE one
       ELSE IF bothSigned /\ isNegative(rhs) THEN zero
       \* a negative base is raised as its magnitude and an odd power negated
       ELSE LET flip(p, negate) == IF negate THEN Neg(p) ELSE p
                magnitude(negative) ==
                    flip(modPow(IF negative THEN Neg(x) ELSE x, rhs, bothSigned),
                         negative /\ isOdd(rhs))
            IN magnitude(bothSigned /\ isNegative(x))

-----------------------------------------------------------------------------
(* Parsing: text is a sequence of one-character strings *)

\* the static table Digits of writeTo
Digits == <<"0", "1", "2", "3", "4", "5", "6", "7", "8", "9", "a", "b", "c", "d", "e", "f">>

UpperDigits == <<"A", "B", "C", "D", "E", "F">>

\* isDecimalDigit (text/CharInfo.h)
isDecimalDigit(c) == \E i \in 1 .. 10 : Digits[i] = c

\* getDigitValue (text/CharInfo.h), of a decimal digit
getDigitValue(c) == (CHOOSE i \in 1 .. 10 : Digits[i] = c) - 1

\* getHexDigitValue (text/CharInfo.h), of a hexadecimal digit
getHexDigitValue(c) ==
    IF \E i \in 1 .. 16 : Digits[i] = c THEN (CHOOSE i \in 1 .. 16 : Digits[i] = c) - 1
    ELSE (CHOOSE i \in 1 .. 6 : UpperDigits[i] = c) + 9

\* SVInt::MAX_BITS (SVInt.h): a 24-bit size
MAX_BITS == 16777215

\* the width of possibleSize, a uint32_t
SizeWidth == 32

\* std::invalid_argument thrown: no value is produced
Error == [kind |-> "error"]

\* literalBaseFromChar with a default case that takes any other letter as hex
literalBaseFromCharDefaultHex(base) ==
    IF base \in {"d", "D"} THEN "Decimal"
    ELSE IF base \in {"b", "B"} THEN "Binary"
    ELSE IF base \in {"o", "O"} THEN "Octal"
    ELSE "Hex"

\* literalBaseFromChar: the base, or "none" when it returns false
literalBaseFromChar(base) ==
    IF base \in {"d", "D"} THEN "Decimal"
    ELSE IF base \in {"b", "B"} THEN "Binary"
    ELSE IF base \in {"o", "O"} THEN "Octal"
    ELSE IF base \in {"h", "H"} THEN "Hex"
    ELSE "none"

\* the passes lo .. hi of the loop of fromString that looks for the apostrophe,
\* one for each character of str, over st: the pass of one character is the
\* last case, a longer run is its two halves in turn
RECURSIVE scanSize(_, _, _, _)
scanSize(str, lo, hi, st) ==
    IF lo > hi \/ st # st THEN st
    ELSE IF lo < hi
    THEN scanSize(str, ((lo + hi) \div 2) + 1, hi,
                  scanSize(str, lo, (lo + hi) \div 2, st))
    ELSE IF isDecimalDigit(str[lo])
    THEN LET grown(size) ==
                 [st EXCEPT !.possibleSize = size,
                            !.sizeOverflow = @ \/ BLess(NatBits(MAX_BITS), size)]
         IN grown(Low(BAdd(BMul(st.possibleSize, NatBits(10)),
                           NatBits(getDigitValue(str[lo]))), SizeWidth))
    ELSE IF str[lo] # "_" THEN [st EXCEPT !.sizeBad = TRUE]
    ELSE st

\* logic_t::X_VALUE and logic_t::Z_VALUE (SVInt.h): the values of the digits x and z
X_VALUE == 128
Z_VALUE == 64

\* the logic_t a digit character stands for, as the value it holds
digitOf(d) ==
    IF d \in {"X", "x"} THEN X_VALUE
    ELSE IF d \in {"Z", "z", "?"} THEN Z_VALUE
    ELSE getHexDigitValue(d)

\* the fast path with val = digit in place of val += digit: the last digit alone
foldDigitsLastOnly(digits, lo, hi, val, shift, radix) == NatBits(digits[hi])

\* the fast path of fromDigits: the passes for the digits lo .. hi folded into
\* one word
RECURSIVE foldDigits(_, _, _, _, _, _)
foldDigits(digits, lo, hi, val, shift, radix) ==
    IF lo > hi \/ val # val THEN val
    ELSE IF lo < hi
    THEN foldDigits(digits, ((lo + hi) \div 2) + 1, hi,
                    foldDigits(digits, lo, (lo + hi) \div 2, val, shift, radix),
                    shift, radix)
    ELSE WAdd(IF shift # 0 THEN WShl(val, shift) ELSE WMul(val, NatBits(radix)),
              NatBits(digits[lo]))

\* the decimal loop of fromDigits, result = result * 10 + digit, for the digits
\* lo .. hi
RECURSIVE decimalDigits(_, _, _, _, _)
decimalDigits(digits, lo, hi, result, bits) ==
    IF lo > hi \/ result # result THEN result
    ELSE IF lo < hi
    THEN decimalDigits(digits, ((lo + hi) \div 2) + 1, hi,
                       decimalDigits(digits, lo, (lo + hi) \div 2, result, bits), bits)
    ELSE Add(Mul(result, SVInt(bits, NatBits(10), FALSE)),
             [SVInt(bits, {}, FALSE) EXCEPT !.pVal[1] = NatBits(digits[lo])])

\* the power-of-two loop of fromDigits over the words of both planes, for the
\* digits lo .. hi
RECURSIVE shiftDigits(_, _, _, _, _, _, _)
shiftDigits(digits, lo, hi, words, bits, shift, anyUnknown) ==
    IF lo > hi \/ words # words THEN words
    ELSE IF lo < hi
    THEN shiftDigits(digits, ((lo + hi) \div 2) + 1, hi,
                     shiftDigits(digits, lo, (lo + hi) \div 2, words, bits, shift,
                                 anyUnknown),
                     bits, shift, anyUnknown)
    ELSE LET numWords == getNumWords(bits, FALSE)
             ones == 2 ^ shift - 1
             d == digits[lo]
             value == IF d = X_VALUE THEN 0 ELSE IF d = Z_VALUE THEN ones ELSE d
             unknown == IF d \in {X_VALUE, Z_VALUE} THEN ones ELSE 0
             moved == IF shift >= bits
                      THEN [words EXCEPT ![1] = {}, ![numWords + 1] = {}]
                      ELSE shlFar(words, 0, shift, numWords)
                               \o (IF anyUnknown
                                   THEN shlFar(words, numWords, shift, numWords)
                                   ELSE <<>>)
             added == [moved EXCEPT ![1] = WAdd(@, NatBits(value))]
         IN IF anyUnknown
            THEN [added EXCEPT ![numWords + 1] = WAdd(@, NatBits(unknown))]
            ELSE added

\* the end of fromDigits with no extension of the top digit
extendTopUnknownNot(result, givenBits) == result

\* the end of fromDigits: a top digit that is X or Z is extended over the bits
\* above the given ones
extendTopUnknown(result, givenBits) ==
    LET numWords == getNumWords(result.bitWidth, FALSE)
        rem == givenBits % BITS_PER_WORD
        wordBits == IF rem # 0 THEN rem ELSE BITS_PER_WORD
        wordOffset == IF rem # 0 THEN givenBits \div BITS_PER_WORD
                      ELSE givenBits \div BITS_PER_WORD - 1
        mask == IF rem # 0 THEN WShl(UINT64_MAX, rem) ELSE {}
        topWord == numWords + wordOffset
        fill(w, from, to) ==
            [k \in 1 .. Len(w) |->
                IF k = from + 1 THEN BOr(w[k], mask)
                ELSE IF k > from + 1 /\ k <= to THEN UINT64_MAX
                ELSE w[k]]
        u == fill(result.pVal, topWord, 2 * numWords)
    IN IF ~hasUnknown(result) THEN result
       ELSE IF WShr(P(result, topWord), wordBits - 1) = {} THEN result
       \* the words written lie beyond the end of the buffer
       ELSE IF topWord >= 2 * numWords THEN (IF env.fault THEN Crashed ELSE result)
       ELSE clearUnusedBits(
                [result EXCEPT !.pVal =
                    IF WShr(P(result, wordOffset), wordBits - 1) # {}
                    THEN fill(u, wordOffset, numWords) ELSE u])

\* SVInt::fromDigits; digits is the sequence of the values of the logic_t digits
fromDigits(bits, base, isSigned, anyUnknown, digits) ==
    LET radix == CASE base = "Binary" -> 2 [] base = "Octal" -> 8
                   [] base = "Decimal" -> 10 [] base = "Hex" -> 16
        shift == CASE base = "Binary" -> 1 [] base = "Octal" -> 3
                   [] base = "Decimal" -> 0 [] base = "Hex" -> 4
        tooLarge == \E i \in 1 .. Len(digits) :
                        digits[i] \notin {X_VALUE, Z_VALUE} /\ digits[i] >= radix
        result == allocZeroed(bits, isSigned, anyUnknown)
    IN IF digits = <<>> THEN Error
       ELSE IF bits <= BITS_PER_WORD /\ ~anyUnknown
       THEN IF tooLarge THEN Error
            ELSE Val(SVInt(bits, foldDigits(digits, 1, Len(digits), {}, shift, radix), isSigned))
       ELSE IF radix = 10
       THEN IF anyUnknown
            THEN IF Len(digits) # 1 THEN Error
                 ELSE IF digits[1] = Z_VALUE THEN Val(createFillZ(bits, isSigned))
                 ELSE Val(createFillX(bits, isSigned))
            ELSE IF tooLarge THEN Error
            ELSE Val(decimalDigits(digits, 1, Len(digits), result, bits))
       ELSE IF tooLarge THEN Error
       ELSE Val(extendTopUnknown(
                    checkUnknown(clearUnusedBits(
                        [result EXCEPT !.pVal =
                            shiftDigits(digits, 1, Len(digits), result.pVal, bits,
                                        shift, anyUnknown)])),
                    Len(digits) * shift))

\* the digits of str[c .. ] as fromString collects them, underscores skipped
digitsFrom(str, c) ==
    LET rest == SelectSeq(SubSeq(str, c, Len(str)), LAMBDA d : d # "_")
    IN [i \in 1 .. Len(rest) |-> digitOf(rest[i])]

\* fromString from the base specifier on: c is the position after the apostrophe
sizedLiteral(str, c, bits) ==
    LET isSigned == str[c] \in {"s", "S"}
        cb == IF isSigned THEN c + 1 ELSE c
        base == literalBaseFromChar(str[cb])
        digits == digitsFrom(str, cb + 1)
    IN IF cb > Len(str) THEN Error
       ELSE IF base = "none" THEN Error
       ELSE IF cb + 1 > Len(str) THEN Error
       ELSE fromDigits(bits, base, isSigned, \E i \in 1 .. Len(digits) : digits[i] \in {X_VALUE, Z_VALUE},
                       digits)

\* SVInt::fromString
fromString(str) ==
    LET negative == str[1] = "-"
        c == IF str[1] \in {"-", "+"} THEN 2 ELSE 1
        found == \E i \in c .. Len(str) : str[i] = "'"
        apostrophe == CHOOSE i \in c .. Len(str) :
                          str[i] = "'" /\ \A k \in c .. (i - 1) : str[k] # "'"
        size == scanSize(str, c, IF found THEN apostrophe - 1 ELSE Len(str),
                         [possibleSize |-> {}, sizeOverflow |-> FALSE, sizeBad |-> FALSE])
        digits == digitsFrom(str, c)
        result ==
            IF found
            THEN IF size.sizeBad \/ size.sizeOverflow \/ size.possibleSize = {} THEN Error
                 ELSE IF apostrophe + 1 > Len(str) THEN Error
                 ELSE sizedLiteral(str, apostrophe + 1, BitsNat(size.possibleSize))
            ELSE IF size.sizeBad THEN Error
            ELSE fromDigits(32, "Decimal", TRUE, FALSE, digits)
    IN IF str = <<>> THEN Error
       ELSE IF c > Len(str) THEN Error
       ELSE IF negative /\ result.kind = "int" THEN Val(Neg(result.v))
       ELSE result

-----------------------------------------------------------------------------
(* Formatting *)

\* std::to_string of a bit width
RECURSIVE to_string(_)
to_string(n) ==
    IF n < 10 THEN <<Digits[n + 1]>> ELSE to_string(n \div 10) \o <<Digits[(n % 10) + 1]>>

\* one pass of the decimal loop of writeTo over st = <<tmp, buffer>>; nothing
\* changes once tmp != 0 fails
decimalPass(st) ==
    IF Ne(st[1], FromInt(0)) # "1" THEN st
    ELSE LET append(qr) ==
                 <<qr[1], Append(st[2], Digits[BitsNat(ValueBits(qr[2])) + 1])>>
         IN append(divide(st[1], NumWords(st[1]), SVInt(4, NatBits(10), FALSE), 1))

\* the passes lo .. hi of the decimal loop of writeTo
RECURSIVE decimalText(_, _, _)
decimalText(st, lo, hi) ==
    IF lo > hi \/ st # st THEN st
    ELSE IF lo < hi
    THEN decimalText(decimalText(st, lo, (lo + hi) \div 2), ((lo + hi) \div 2) + 1, hi)
    ELSE decimalPass(st)

\* one pass of the shift loop of writeTo for the bases 2, 8 and 16 over
\* st = <<tmp, buffer>>: one character for shiftAmount bits of tmp; nothing
\* changes once tmp != 0 is false
shiftPass(st, shiftAmount, bitWidth) ==
    IF Ne(st[1], FromInt(0)) \notin {"1", "x"} THEN st
    ELSE LET tmp == st[1]
             maskAmount == NatBits(2 ^ shiftAmount - 1)
             digit == BitsNat(BAnd(Raw(tmp, 0), maskAmount))
             u == BAnd(P(tmp, getNumWords(bitWidth, FALSE)), maskAmount)
             ch == IF ~tmp.unknownFlag THEN Digits[digit + 1]
                   ELSE IF u = {} THEN Digits[digit + 1]
                   ELSE IF digit # 0 THEN "z"
                   ELSE "x"
         IN <<lshrBy(tmp, shiftAmount), Append(st[2], ch)>>

\* the passes lo .. hi of the shift loop of writeTo
RECURSIVE shiftText(_, _, _, _, _)
shiftText(st, shiftAmount, bitWidth, lo, hi) ==
    IF lo > hi \/ st # st THEN st
    ELSE IF lo < hi
    THEN shiftText(shiftText(st, shiftAmount, bitWidth, lo, (lo + hi) \div 2),
                   shiftAmount, bitWidth, ((lo + hi) \div 2) + 1, hi)
    ELSE shiftPass(st, shiftAmount, bitWidth)

\* std::reverse of the digits
Reverse(buffer) == [i \in 1 .. Len(buffer) |-> buffer[Len(buffer) + 1 - i]]

\* SVInt::writeTo: the characters appended to an empty buffer
writeTo(x, base) ==
    LET negative == x.signFlag /\ ~x.unknownFlag /\ isNegative(x)
        tmp == IF negative THEN Neg(x) ELSE x
        sign == IF negative THEN <<"-">> ELSE <<>>
        prefix ==
            IF base # "Decimal" \/ x.bitWidth # 32 \/ ~x.signFlag \/ x.unknownFlag
            THEN to_string(x.bitWidth) \o <<"'">>
                     \o (IF x.signFlag THEN <<"s">> ELSE <<>>)
                     \o <<CASE base = "Binary" -> "b" [] base = "Octal" -> "o"
                            [] base = "Decimal" -> "d" [] base = "Hex" -> "h">>
            ELSE <<>>
        \* a value of bitWidth bits is zero after at most bitWidth passes
        digits ==
            IF base = "Decimal"
            THEN IF x.unknownFlag
                 THEN (IF Raw(x, 0) # {} THEN <<"z">> ELSE <<"x">>)
                 ELSE decimalText(<<tmp, <<>>>>, 1, x.bitWidth)[2]
            ELSE shiftText(<<tmp, <<>>>>,
                           CASE base = "Binary" -> 1 [] base = "Octal" -> 3
                             [] base = "Hex" -> 4,
                           x.bitWidth, 1, x.bitWidth)[2]
    IN sign \o prefix \o (IF digits = <<>> THEN <<"0">> ELSE Reverse(digits))

\* toString() with the base always Hex
toStringHex(x) == writeTo(x, "Hex")

\* SVInt::toString()
toString(x) ==
    writeTo(x, IF x.bitWidth < 8 \/ x.unknownFlag THEN "Binary"
               ELSE IF x.bitWidth = 32 \/ x.signFlag THEN "Decimal"
               ELSE "Hex")

-----------------------------------------------------------------------------
(* The analysis manager (source/analysis/AnalysisManager.cpp) *)

\* the scopes of the design: two compilation units, a top instance and a body
\* that all three of them instantiate
Scopes == {"unit1", "unit2", "top", "body"}

\* root.compilationUnits, in the order the loops of analyze visit them
compilationUnits == <<"unit1", "unit2">>

\* root.topInstances
topInstances == <<"top">>

\* the scopes a task that analyzes scope asks to have analyzed in turn
Members(scope) == IF scope = "body" THEN {} ELSE {"body"}

\* options.numThreads: the workers of the thread pool
NumThreads == 2

\* how many times the caller calls analyze or getDiagnostics
MaxCalls == 2

\* how many times analyzeScopeAsync is called for one scope
MaxAsyncCalls == 3

\* the AnalysisManager after its constructor, and whether the compilation the
\* caller hands to analyze has fatal errors
ManagerState(hasFatalErrors) ==
    /\ analyzedScopes = [s \in Scopes |-> "absent"]
    /\ tasks = [s \in Scopes |-> "none"]
    /\ started = [s \in Scopes |-> 0]
    /\ asyncCalls = [s \in Scopes |-> 0]
    /\ pendingException = "null"
    /\ caller = [pc |-> "idle", unit |-> 1, calls |-> 0, fatal |-> hasFatalErrors]

\* the AnalysisManager after its constructor
ManagerInit == ManagerState(FALSE)

\* try_emplace that inserts whatever the map holds
try_emplaceAlways(scope) == TRUE

\* analyzedScopes.try_emplace(&scope, std::nullopt): whether it inserted
try_emplace(scope) == analyzedScopes[scope] = "absent"

\* AnalysisManager::analyzeScopeAsync, by whichever thread calls it
analyzeScopeAsync(scope) ==
    /\ asyncCalls[scope] < MaxAsyncCalls
    /\ asyncCalls' = [asyncCalls EXCEPT ![scope] = @ + 1]
    /\ IF try_emplace(scope)
       THEN /\ analyzedScopes' = [analyzedScopes EXCEPT ![scope] = "nullopt"]
            /\ tasks' = [tasks EXCEPT ![scope] = "queued"]
            /\ started' = [started EXCEPT ![scope] = @ + 1]
       ELSE UNCHANGED <<analyzedScopes, tasks, started>>

\* getAnalyzedScope that takes every entry of the map for a result
getAnalyzedScopeAny(scope) ==
    IF analyzedScopes[scope] # "absent" THEN "result" ELSE "null"

\* AnalysisManager::getAnalyzedScope: "null" or the result
getAnalyzedScope(scope) ==
    IF analyzedScopes[scope] = "result" THEN "result" ELSE "null"

\* the tasks the thread pool has not finished with: queued or on a worker
Unfinished == {s \in Scopes : tasks[s] \in {"queued", "running", "caught", "analyzed", "stored"}}

\* the tasks that occupy a worker
OnWorker == {s \in Scopes : tasks[s] \in {"running", "caught", "analyzed", "stored"}}

\* the caller enters analyze(compilation), which returns at once when the
\* compilation has fatal errors
CallAnalyze ==
    /\ caller.pc \in {"idle", "returned", "rethrown", "diagnosed"}
    /\ caller.calls < MaxCalls
    /\ caller' = [caller EXCEPT !.pc = IF caller.fatal THEN "returned" ELSE "units",
                                !.unit = 1, !.calls = @ + 1]
    /\ UNCHANGED <<svVars, analyzedScopes, tasks, started, asyncCalls, pendingException>>

\* one pass of the first loop of analyze: analyzeScopeAsync(*unit)
AnalyzeUnit ==
    /\ caller.pc = "units"
    /\ caller.unit <= Len(compilationUnits)
    /\ analyzeScopeAsync(compilationUnits[caller.unit])
    /\ caller' = [caller EXCEPT !.unit = @ + 1]
    /\ UNCHANGED <<svVars, pendingException>>

\* the first loop of analyze is over: the caller enters wait()
UnitsDone ==
    /\ caller.pc = "units"
    /\ caller.unit > Len(compilationUnits)
    /\ caller' = [caller EXCEPT !.pc = "wait1"]
    /\ UNCHANGED <<svVars, analyzedScopes, tasks, started, asyncCalls, pendingException>>

\* wait() that does not wait for the thread pool
waitNoDrain(next) ==
    /\ caller' = [caller EXCEPT !.pc = IF pendingException # "null" THEN "rethrown"
                                       ELSE next]
    /\ UNCHANGED <<svVars, analyzedScopes, tasks, started, asyncCalls, pendingException>>

\* AnalysisManager::wait: threadPool.wait() returns once no task is queued or
\* running, then the pending exception is rethrown
wait(next) ==
    /\ Unfinished = {}
    /\ caller' = [caller EXCEPT !.pc = IF pendingException # "null" THEN "rethrown"
                                       ELSE next]
    /\ UNCHANGED <<svVars, analyzedScopes, tasks, started, asyncCalls, pendingException>>

\* the wait() calls of analyze and of getDiagnostics
Wait ==
    \/ caller.pc = "wait1" /\ wait("collect")
    \/ caller.pc = "wait2" /\ wait("returned")
    \/ caller.pc = "waitDiag" /\ wait("diagnosed")

\* the second loop of analyze: getAnalyzedScope(*unit) and SLANG_ASSERT(scope);
\* the design has no package but std, which the loop over the packages skips
Collect ==
    /\ caller.pc = "collect"
    /\ caller' = [caller EXCEPT !.pc =
           IF \A i \in 1 .. Len(compilationUnits) :
                  getAnalyzedScope(compilationUnits[i]) # "null"
           THEN "tops" ELSE "assertFailed"]
    /\ UNCHANGED <<svVars, analyzedScopes, tasks, started, asyncCalls, pendingException>>

\* the loop of analyze over the top instances: analyzeSymbol(*instance)
AnalyzeTops ==
    /\ caller.pc = "tops"
    /\ analyzeScopeAsync(topInstances[1])
    /\ caller' = [caller EXCEPT !.pc = "wait2"]
    /\ UNCHANGED <<svVars, pendingException>>

\* the caller enters getDiagnostics(sourceManager)
CallGetDiagnostics ==
    /\ caller.pc \in {"idle", "returned", "rethrown", "diagnosed"}
    /\ caller.calls < MaxCalls
    /\ caller' = [caller EXCEPT !.pc = "waitDiag", !.calls = @ + 1]
    /\ UNCHANGED <<svVars, analyzedScopes, tasks, started, asyncCalls, pendingException>>

\* a worker of the thread pool takes the task of scope off the queue
RunTask(scope) ==
    /\ tasks[scope] = "queued"
    /\ Cardinality(OnWorker) < NumThreads
    /\ tasks' = [tasks EXCEPT ![scope] = "running"]
    /\ UNCHANGED <<svVars, analyzedScopes, started, asyncCalls, pendingException, caller>>

\* analyzeScopeBlocking visits a member that asks for the analysis of a scope
TaskVisitMember(scope) ==
    /\ tasks[scope] = "running"
    /\ \E member \in Members(scope) : analyzeScopeAsync(member)
    /\ UNCHANGED <<svVars, pendingException, caller>>

\* analyzeScopeBlocking throws: the task is in SLANG_CATCH
TaskThrow(scope) ==
    /\ tasks[scope] = "running"
    /\ tasks' = [tasks EXCEPT ![scope] = "caught"]
    /\ UNCHANGED <<svVars, analyzedScopes, started, asyncCalls, pendingException, caller>>

\* the handler takes the mutex, records the exception, and the task ends
TaskRecord(scope) ==
    /\ tasks[scope] = "caught"
    /\ pendingException' = scope
    /\ tasks' = [tasks EXCEPT ![scope] = "failed"]
    /\ UNCHANGED <<svVars, analyzedScopes, started, asyncCalls, caller>>

\* analyzeScopeBlocking returns its result
TaskAnalyzed(scope) ==
    /\ tasks[scope] = "running"
    /\ tasks' = [tasks EXCEPT ![scope] = "analyzed"]
    /\ UNCHANGED <<svVars, analyzedScopes, started, asyncCalls, pendingException, caller>>

\* analyzedScopes.visit(&scope, ...) stores the result
TaskStore(scope) ==
    /\ tasks[scope] = "analyzed"
    /\ analyzedScopes' = [analyzedScopes EXCEPT ![scope] = "result"]
    /\ tasks' = [tasks EXCEPT ![scope] = "stored"]
    /\ UNCHANGED <<svVars, started, asyncCalls, pendingException, caller>>

\* the task returns to the thread pool
TaskEnd(scope) ==
    /\ tasks[scope] = "stored"
    /\ tasks' = [tasks EXCEPT ![scope] = "finished"]
    /\ UNCHANGED <<svVars, analyzedScopes, started, asyncCalls, pendingException, caller>>

-----------------------------------------------------------------------------
(* The operands and the runs *)

\* the widths of the enumerated operands: one that fits a word with room to
\* spare, one that needs two words
NarrowBits == 4
WideBits == 66

Ones(w) == 0 .. (w - 1)

\* known values of width w: 0, 1, 3, the most negative, -1, the most positive,
\* and one with both of its top two bits clear
KnownOf(w, s) ==
    {Lit(w, s, v, {}) : v \in {{}, {0}, {0, 1}, {w - 1}, Ones(w), Ones(w - 1), {0, w - 3}}}

\* values of width w with unknown bits: 00x0, 000x, all x, all z, x000 and 10z0
UnknownOf(w, s) ==
    {Lit(w, s, {}, {1}), Lit(w, s, {}, {0}), Lit(w, s, {}, Ones(w)),
     Lit(w, s, Ones(w), Ones(w)), Lit(w, s, {}, {w - 1}), Lit(w, s, {1, w - 1}, {1})}

\* the operands the scenarios of the specification name:
\* 8'b1100, 8'b10x0, 16'sd-1000 (64536), 16'sd3, 8'sd1, 8'sd-128
Scenario ==
    {Lit(8, FALSE, {2, 3}, {}), Lit(8, FALSE, {3}, {1}),
     Lit(16, TRUE, {3, 4, 10, 11, 12, 13, 14, 15}, {}), Lit(16, TRUE, {0, 1}, {}),
     Lit(8, TRUE, {0}, {}), Lit(8, TRUE, {7}, {})}

\* two-word values whose low word is full: 2^64 + 2^63 and 2^64 - 1, signed;
\* and one whose top bit alone is unknown
WideExtra ==
    {Lit(WideBits, TRUE, {63, 64}, {}), Lit(WideBits, TRUE, Ones(64), {}),
     Lit(WideBits, FALSE, {0}, {WideBits - 1})}

Operands ==
    KnownOf(NarrowBits, TRUE) \cup KnownOf(WideBits, TRUE)
        \cup {Lit(NarrowBits, FALSE, {0, 2}, {}), Lit(WideBits, FALSE, {0, 65}, {}),
              Lit(NarrowBits, FALSE, {}, {})}
        \cup UnknownOf(NarrowBits, FALSE) \cup {Lit(WideBits, TRUE, {}, Ones(WideBits))}
        \cup Scenario \cup WideExtra

\* a heap pointer read as a word: 16-byte aligned, in the low 47 bits
PtrBits == {4, 7, 13, 22, 30, 36, 40, 44, 46}

\* what the undefined loads of a run produce: ptr is a heap pointer read through
\* the union, mem and mem2 are the words at two locations that are not part of
\* any buffer of the operands, fault tells whether loading from an address that
\* is no pointer at all ends the run
Envs ==
    {[ptr |-> PtrBits, mem |-> {}, mem2 |-> {}, fault |-> TRUE],
     [ptr |-> PtrBits, mem |-> {}, mem2 |-> UINT64_MAX, fault |-> FALSE],
     [ptr |-> PtrBits, mem |-> UINT64_MAX, mem2 |-> {0}, fault |-> FALSE]}

Init ==
    /\ a \in Operands
    /\ b \in Operands
    /\ env \in Envs
    /\ text = <<>>
    /\ op = "init"
    /\ arg = <<>>
    /\ res = None
    /\ ManagerInit

\* one operation applied to the operands of the run
Apply(name, r) ==
    /\ op = "init"
    /\ op' = name
    /\ res' = r
    /\ UNCHANGED <<a, b, env, text, arg, amVars>>

DoAdd == Apply("+", Val(Add(a, b)))
DoSub == Apply("-", Val(Sub(a, b)))
DoMul == Apply("*", Val(Mul(a, b)))
DoDiv == Apply("/", Val(Div(a, b)))
DoRem == Apply("%", Val(Rem(a, b)))
DoPow == Apply("**", Val(pow(a, b)))
DoNeg == Apply("neg", Val(Neg(a)))
DoNot == Apply("~", Val(Not(a)))
DoAnd == Apply("&", Val(And(a, b)))
DoOr == Apply("|", Val(Or(a, b)))
DoXor == Apply("^", Val(Xor(a, b)))
DoXnor == Apply("xnor", Val(xnor(a, b)))
DoLess == Apply("<", Logic(Less(a, b)))
DoEq == Apply("==", Logic(Eq(a, b)))
DoShl == Apply("<<", Val(shl(a, b)))
DoLshr == Apply(">>", Val(lshr(a, b)))
DoAshr == Apply(">>>", Val(ashr(a, b)))

Next ==
    \/ DoAdd \/ DoSub \/ DoMul \/ DoDiv \/ DoRem \/ DoPow \/ DoNeg
    \/ DoNot \/ DoAnd \/ DoOr \/ DoXor \/ DoXnor
    \/ DoLess \/ DoEq \/ DoShl \/ DoLshr

Spec == Init /\ [][Next]_vars

\* the runs of the shift, comparison, selection and concatenation operations
\* that the runs above leave out
DoExactlyEqual == Apply("===", Logic(exactlyEqual(a, b)))
DoWildcardEqual == Apply("==?", Logic(wildcardEqual(a, b)))

\* the ranges <<msb, lsb>> selected of a value of width w: all of it, two bits
\* inside, its top two bits, its lowest bit, a range that ends above it, one that
\* starts below it, one that does both, one below it, one above it, and one of a
\* full word from bit 1 on
SliceRanges(w) ==
    {<<w - 1, 0>>, <<2, 1>>, <<w - 1, w - 2>>, <<0, 0>>, <<w + 1, 0>>, <<1, -2>>,
     <<w, -1>>, <<-1, -3>>, <<w + 2, w>>, <<BITS_PER_WORD, 1>>}

\* res = a(msb, lsb)
DoSlice ==
    /\ op = "init"
    /\ \E range \in SliceRanges(a.bitWidth) :
           /\ arg' = range
           /\ res' = Val(Slice(a, range[1], range[2]))
    /\ op' = "slice"
    /\ UNCHANGED <<a, b, env, text, amVars>>

\* the conditions of a conditional: 1'b0, 1'b1, 1'bx and 1'bz
Conditions ==
    {Lit(1, FALSE, {}, {}), Lit(1, FALSE, {0}, {}), Lit(1, FALSE, {}, {0}),
     Lit(1, FALSE, {0}, {0})}

\* res = conditional(condition, a, b)
DoConditional ==
    /\ op = "init"
    /\ \E condition \in Conditions :
           /\ arg' = <<condition>>
           /\ res' = Val(conditional(condition, a, b))
    /\ op' = "?:"
    /\ UNCHANGED <<a, b, env, text, amVars>>

\* the lists concatenated in a run: of none, one, two and three operands, with
\* and without an operand of width zero
OperandLists ==
    LET empty == SVInt(0, {}, FALSE)
    IN {<<>>, <<a>>, <<a, b>>, <<b, a>>, <<a, b, a>>, <<a, empty, b>>, <<empty, a>>,
        <<empty>>}

\* res = concatenate(operands)
DoConcatenate ==
    /\ op = "init"
    /\ \E operands \in OperandLists :
           /\ arg' = operands
           /\ res' = Val(concatenate(operands))
    /\ op' = "concat"
    /\ UNCHANGED <<a, b, env, text, amVars>>

\* the third operands of a sum of width w: 1, the most negative value and -1
Thirds(w) == {Lit(w, TRUE, v, {}) : v \in {{0}, {w - 1}, Ones(w)}}

\* res = (a + b) + c, with a + b and a + (b + c) kept in arg, for known
\* operands of one width
DoAddThree ==
    /\ op = "init"
    /\ a.bitWidth = b.bitWidth
    /\ ~a.unknownFlag /\ ~b.unknownFlag
    /\ \E c \in Thirds(a.bitWidth) :
           /\ arg' = <<c, Add(a, b), Add(a, Add(b, c))>>
           /\ res' = Val(Add(Add(a, b), c))
    /\ op' = "+++"
    /\ UNCHANGED <<a, b, env, text, amVars>>

\* the amounts a value of width w is shifted by: none, inside a word, up to
\* the width and past it, and by a word and more
ShiftAmounts(w) == {k \in {0, 1, 3, w - 1, w, w + 1, BITS_PER_WORD, BITS_PER_WORD + 1} : k >= 0}

\* res = a.shl(k).lshr(k), with a.shl(k) kept in arg, for a known a
DoShlLshr ==
    /\ op = "init"
    /\ ~a.unknownFlag
    /\ \E k \in ShiftAmounts(a.bitWidth) :
           /\ arg' = <<k, shlBy(a, k)>>
           /\ res' = Val(lshrBy(shlBy(a, k), k))
    /\ op' = "<<>>"
    /\ UNCHANGED <<a, b, env, text, amVars>>

SelectNext ==
    \/ DoAshr \/ DoExactlyEqual \/ DoWildcardEqual \/ DoSlice \/ DoConditional
    \/ DoConcatenate \/ DoAddThree \/ DoShlLshr

SpecSelect == Init /\ [][SelectNext]_vars

-----------------------------------------------------------------------------
(* The runs of the text operations *)

\* the widths of the values that are formatted: below a word, the widths at
\* which toString changes base, a full word, and two words
TextWidths == {1, NarrowBits, 7, 8, 32, BITS_PER_WORD, WideBits, 2 * BITS_PER_WORD}

\* known values of width w: 0, 1, the most negative, -1, the most positive and
\* one with both end bits set
TextKnownOf(w, s) ==
    {Lit(w, s, v, {}) : v \in {{}, {0}, {w - 1}, Ones(w), Ones(w - 1), {0, w - 1}}}

TextValues ==
    UNION {TextKnownOf(w, s) : w \in TextWidths, s \in BOOLEAN}
        \cup UnknownOf(NarrowBits, FALSE) \cup UnknownOf(16, TRUE)
        \cup UnknownOf(WideBits, FALSE) \cup Scenario

\* the parts literals are put together from
Signs == {<<>>, <<"-">>, <<"+">>}

\* sizes: none, 4, 0, 66, one with a letter, one with an underscore,
\* MAX_BITS + 1, and 2^32 + 4
SizeTexts ==
    {<<>>, <<"4">>, <<"0">>, <<"6", "6">>, <<"4", "a">>, <<"_", "8">>,
     <<"1", "6", "7", "7", "7", "2", "1", "6">>,
     <<"4", "2", "9", "4", "9", "6", "7", "3", "0", "0">>}

Marks == {<<>>, <<"'">>, <<"'", "s">>, <<"'", "S">>}

BaseTexts == {<<>>, <<"b">>, <<"o">>, <<"d">>, <<"H">>, <<"q">>}

DigitTexts ==
    {<<>>, <<"1", "0", "1">>, <<"7", "_", "7">>, <<"9">>, <<"f", "F">>, <<"x">>,
     <<"1", "Z">>, <<"?", "0">>}

\* the literals of the scenarios of the specification: 16'hx, 8'bz, 4'b10,
\* 4'bx1 and 8'b????0001
ScenarioLiterals ==
    {<<"1", "6", "'", "h", "x">>, <<"8", "'", "b", "z">>, <<"4", "'", "b", "1", "0">>,
     <<"4", "'", "b", "x", "1">>, <<"8", "'", "b", "?", "?", "?", "?", "0", "0", "0", "1">>}

Literals ==
    {sg \o sz \o mk \o bs \o dg :
        sg \in Signs, sz \in SizeTexts, mk \in Marks, bs \in BaseTexts, dg \in DigitTexts}
        \cup ScenarioLiterals

\* a run either formats a value or parses a literal
TextInit ==
    /\ env \in Envs
    /\ \/ a \in TextValues /\ text = <<>>
       \/ a = Lit(1, FALSE, {}, {}) /\ text \in Literals
    /\ b = a
    /\ op = "init"
    /\ arg = <<>>
    /\ res = None
    /\ ManagerInit

\* text = a.toString()
DoToString ==
    /\ op = "init"
    /\ text' = toString(a)
    /\ op' = "toString"
    /\ UNCHANGED <<a, b, env, arg, res, amVars>>

\* res = SVInt::fromString(text)
DoFromString ==
    /\ op \in {"init", "toString"}
    /\ res' = fromString(text)
    /\ op' = "fromString"
    /\ UNCHANGED <<a, b, env, text, arg, amVars>>

\* text = res.toString(), of the value a literal was parsed to; arg keeps the
\* literal
DoResultToString ==
    /\ op = "fromString"
    /\ res.kind = "int"
    /\ arg' = text
    /\ text' = toString(res.v)
    /\ op' = "resultToString"
    /\ UNCHANGED <<a, b, env, res, amVars>>

\* text = a.toString(base), for the bases 8 and 16
DoToStringBase ==
    /\ op = "init"
    /\ text = <<>>
    /\ \E base \in {"Octal", "Hex"} :
           /\ arg' = <<base>>
           /\ text' = writeTo(a, base)
    /\ op' = "toStringBase"
    /\ UNCHANGED <<a, b, env, res, amVars>>

\* res = wildcardEqual(concatenate([fromString(text), fromString(second)]),
\*                     fromString(pattern)), for the literals of the scenarios
DoConcatWildcard ==
    /\ op = "init"
    /\ text \in ScenarioLiterals
    /\ \E second \in ScenarioLiterals, pattern \in ScenarioLiterals :
           /\ arg' = <<second, pattern>>
           /\ res' = Logic(wildcardEqual(
                               concatenate(<<fromString(text).v, fromString(second).v>>),
                               fromString(pattern).v))
    /\ op' = "concatWildcard"
    /\ UNCHANGED <<a, b, env, text, amVars>>

TextNext ==
    \/ DoToString \/ DoFromString \/ DoResultToString \/ DoToStringBase
    \/ DoConcatWildcard

SpecText == TextInit /\ [][TextNext]_vars

-----------------------------------------------------------------------------
(* The runs of the analysis manager *)

AnalysisInit ==
    /\ a = Lit(1, FALSE, {}, {})
    /\ b = a
    /\ env = [ptr |-> PtrBits, mem |-> {}, mem2 |-> {}, fault |-> TRUE]
    /\ text = <<>>
    /\ op = "init"
    /\ arg = <<>>
    /\ res = None
    /\ \E hasFatalErrors \in BOOLEAN : ManagerState(hasFatalErrors)

AnalysisNext ==
    \/ CallAnalyze \/ AnalyzeUnit \/ UnitsDone \/ Wait \/ Collect \/ AnalyzeTops
    \/ CallGetDiagnostics
    \/ \E scope \in Scopes :
           \/ RunTask(scope) \/ TaskVisitMember(scope) \/ TaskThrow(scope)
           \/ TaskRecord(scope) \/ TaskAnalyzed(scope) \/ TaskStore(scope)
           \/ TaskEnd(scope)

SpecAnalysis == AnalysisInit /\ [][AnalysisNext]_vars

-----------------------------------------------------------------------------
(* What the specification says of a result, read off the two planes *)

\* the wider of the two operand widths
UnifiedWidth == IF a.bitWidth > b.bitWidth THEN a.bitWidth ELSE b.bitWidth

BothSigned == a.signFlag /\ b.signFlag

AnyUnknownBit == UnknownBits(a) # {} \/ UnknownBits(b) # {}

\* r is a value of width w whose every bit is X
AllX(r, w) ==
    /\ r.kind = "int"
    /\ r.v.bitWidth = w
    /\ UnknownBits(r.v) = Ones(w)
    /\ ValueBits(r.v) = {}

\* r is the value of width w with value plane v and unknown plane u
IsValue(r, w, v, u) ==
    /\ r.kind = "int"
    /\ r.v.bitWidth = w
    /\ ValueBits(r.v) = v
    /\ UnknownBits(r.v) = u

\* plane p of a value of width from, extended to width w: its top bit is
\* replicated if sign is set, zeros are added otherwise
ExtPlane(p, from, w, sign) ==
    IF sign /\ (from - 1) \in p THEN p \cup (from .. (w - 1)) ELSE p

\* x extended to the unified width of the run
Unified(x) ==
    Lit(UnifiedWidth, x.signFlag,
        ExtPlane(ValueBits(x), x.bitWidth, UnifiedWidth, BothSigned),
        ExtPlane(UnknownBits(x), x.bitWidth, UnifiedWidth, BothSigned))

\* the two's complement of plane p in width w
Negated(p, w) == BSubMod({}, p, w)

\* the magnitude of the two's complement number p of width w
Magnitude(p, w) == IF (w - 1) \in p THEN Negated(p, w) ELSE p

\* p < q as numbers of width w, two's complement if signed
NumLess(p, q, w, signed) ==
    IF signed THEN BLess(BXor(p, {w - 1}), BXor(q, {w - 1})) ELSE BLess(p, q)

-----------------------------------------------------------------------------
(* Properties of the arithmetic, bitwise, comparison and shift operators *)

\* C1 as stated: for each of + - * / % ** and unary minus, an operand with an
\* X or Z bit makes every bit of the result X, the result having the width of
\* the wider operand.
C1_AllXUnifiedWidth ==
    /\ (op \in {"+", "-", "*", "/", "%", "**"} /\ AnyUnknownBit) => AllX(res, UnifiedWidth)
    /\ (op = "neg" /\ UnknownBits(a) # {}) => AllX(res, a.bitWidth)

\* C1 amended: for + - * / % and unary minus, an operand with an X or Z bit
\* makes every bit of the result X, the result having the width of the wider
\* operand; for ** every bit of the result is X and the result has the width of
\* the left operand.
C1_AllXPowLeftWidth ==
    /\ (op \in {"+", "-", "*", "/", "%"} /\ AnyUnknownBit) => AllX(res, UnifiedWidth)
    /\ (op = "**" /\ AnyUnknownBit) => AllX(res, a.bitWidth)
    /\ (op = "neg" /\ UnknownBits(a) # {}) => AllX(res, a.bitWidth)

\* a power with a known narrow base and a wider exponent that has unknown bits
C1_Witness ==
    /\ op = "**"
    /\ UnknownBits(a) = {}
    /\ UnknownBits(b) # {}
    /\ a.bitWidth < b.bitWidth
    /\ AllX(res, a.bitWidth)

\* the four-state AND of the specification's truth table: the unknown plane
FourStateAndU(va, ua, vb, ub) == BAnd(BAnd(BOr(ua, va), BOr(ub, vb)), BOr(ua, ub))

\* C2 as stated: for operands of equal width every bit of a & b is the
\* four-state AND of the operand bits, u_r = (u_a|v_a) & (u_b|v_b) & (u_a|u_b)
\* and v_r = ~u_r & v_a & v_b, also when exactly one operand has unknown bits.
C2_FourStateAnd ==
    (op = "&" /\ a.bitWidth = b.bitWidth) =>
        LET u == FourStateAndU(ValueBits(a), UnknownBits(a), ValueBits(b), UnknownBits(b))
        IN IsValue(res, a.bitWidth, BAndNot(BAnd(ValueBits(a), ValueBits(b)), u), u)

\* C3 as stated: after every operation a result whose unknownFlag is set has
\* at least one bit set in its unknown plane.
C3_UnknownFlagHasBit ==
    (res.kind = "int" /\ res.v.unknownFlag) => UnknownBits(res.v) # {}

\* the operation called name applied to x and y
Result(name, x, y) ==
    CASE name = "+" -> Val(Add(x, y))
      [] name = "-" -> Val(Sub(x, y))
      [] name = "*" -> Val(Mul(x, y))
      [] name = "/" -> Val(Div(x, y))
      [] name = "%" -> Val(Rem(x, y))
      [] name = "&" -> Val(And(x, y))
      [] name = "|" -> Val(Or(x, y))
      [] name = "^" -> Val(Xor(x, y))
      [] name = "xnor" -> Val(xnor(x, y))
      [] name = "<" -> Logic(Less(x, y))
      [] name = "==" -> Logic(Eq(x, y))

\* C4 as stated: a binary operation on operands of different widths gives what
\* the same operation gives after the narrower operand is extended to the wider
\* width, by sign extension on both planes iff both operands are signed and by
\* zero extension otherwise.
C4_WidthUnification ==
    (op \in {"+", "-", "*", "/", "%", "&", "|", "^", "xnor", "<", "=="}
        /\ a.bitWidth # b.bitWidth) =>
            res = Result(op, Unified(a), Unified(b))

\* C5 as stated: for known signed operands of one width and a non-zero divisor,
\* a / b is the quotient truncated toward zero and a % b the remainder with the
\* sign of the dividend, both modulo 2^w, whatever the width.
C5_SignedDivision ==
    (op \in {"/", "%"} /\ BothSigned /\ a.bitWidth = b.bitWidth
        /\ ~AnyUnknownBit /\ ValueBits(b) # {}) =>
            LET w == a.bitWidth
                qr == BDivMod(Magnitude(ValueBits(a), w), Magnitude(ValueBits(b), w))
                negA == (w - 1) \in ValueBits(a)
                negB == (w - 1) \in ValueBits(b)
                quotient == IF negA # negB THEN Negated(qr[1], w) ELSE Low(qr[1], w)
                remainder == IF negA THEN Negated(qr[2], w) ELSE qr[2]
            IN IsValue(res, w, IF op = "/" THEN quotient ELSE remainder, {})

\* C6 as stated: for known operands a < b is true exactly when the value of a is
\* below the value of b after width unification, read as two's complement if
\* both are signed and as unsigned otherwise.
C6_LessIsNumeric ==
    (op = "<" /\ ~AnyUnknownBit) =>
        res = Logic(LBool(NumLess(ValueBits(Unified(a)), ValueBits(Unified(b)),
                                  UnifiedWidth, BothSigned)))

\* C7 as stated: a == b is X when either operand has an unknown bit; for known
\* operands it is true exactly when the values are equal after width
\* unification, for every pair of widths.
C7_EqualityAfterUnification ==
    op = "==" =>
        IF AnyUnknownBit THEN res = Logic("x")
        ELSE res = Logic(LBool(ValueBits(Unified(a)) = ValueBits(Unified(b))))

\* the shift of the run moves bit i of a to a position inside the value
StaysInside(i) ==
    /\ BLess(ValueBits(b), NatBits(a.bitWidth))
    /\ IF op = "<<" THEN i + BitsNat(ValueBits(b)) < a.bitWidth
       ELSE i - BitsNat(ValueBits(b)) >= 0

\* C10 as stated: a << b and a >> b have unknown bits whenever a or b has an
\* unknown bit, whatever the amount.
C10_ShiftAlwaysUnknown ==
    (op \in {"<<", ">>"} /\ AnyUnknownBit) => (res.kind = "int" /\ hasUnknown(res.v))

\* C10 amended: a << b and a >> b have unknown bits exactly when b has an
\* unknown bit, or b is known and below the width of a and some unknown bit of a
\* is moved to a position inside the value; when b is unknown every bit is X.
C10_ShiftUnknownIffKept ==
    op \in {"<<", ">>"} =>
        /\ res.kind = "int"
        /\ UnknownBits(b) # {} => AllX(res, a.bitWidth)
        /\ hasUnknown(res.v) <=>
              \/ UnknownBits(b) # {}
              \/ \E i \in UnknownBits(a) : StaysInside(i)
        /\ hasUnknown(res.v) <=> UnknownBits(res.v) # {}

\* a two-word value whose only unknown bit is shifted out to the left
C10_Witness ==
    /\ op = "<<"
    /\ a.bitWidth > BITS_PER_WORD
    /\ UnknownBits(a) # {}
    /\ UnknownBits(b) = {}
    /\ BLess(ValueBits(b), NatBits(a.bitWidth))
    /\ res.kind = "int"
    /\ ~hasUnknown(res.v)

-----------------------------------------------------------------------------
(* Properties of parsing and formatting *)

\* C8: for every value x without unknown bits, fromString(x.toString()) has the
\* width, the signedness and the bits of x.
C8_RoundTrip ==
    (op = "fromString" /\ UnknownBits(a) = {} /\ text = toString(a)) =>
        /\ res.kind = "int"
        /\ res.v.bitWidth = a.bitWidth
        /\ res.v.signFlag = a.signFlag
        /\ ValueBits(res.v) = ValueBits(a)
        /\ UnknownBits(res.v) = {}

\* a negative two-word value went through toString and fromString
C8_Witness ==
    /\ op = "fromString"
    /\ text = toString(a)
    /\ a.bitWidth > BITS_PER_WORD
    /\ a.signFlag
    /\ (a.bitWidth - 1) \in ValueBits(a)
    /\ UnknownBits(a) = {}
    /\ res = Val(a)

\* the literal without its leading sign
Unsigned(str) ==
    IF str # <<>> /\ str[1] \in {"-", "+"} THEN SubSeq(str, 2, Len(str)) ELSE str

HasApostrophe(str) == \E i \in 1 .. Len(str) : str[i] = "'"

FirstApostrophe(str) ==
    CHOOSE i \in 1 .. Len(str) : str[i] = "'" /\ \A k \in 1 .. (i - 1) : str[k] # "'"

\* the characters before the apostrophe and those after it
SizePart(str) == SubSeq(Unsigned(str), 1, FirstApostrophe(Unsigned(str)) - 1)

AfterApostrophe(str) ==
    SubSeq(Unsigned(str), FirstApostrophe(Unsigned(str)) + 1, Len(Unsigned(str)))

\* the characters after the apostrophe, the s/S flag left out
AfterFlag(str) ==
    LET r == AfterApostrophe(str)
    IN IF r # <<>> /\ r[1] \in {"s", "S"} THEN SubSeq(r, 2, Len(r)) ELSE r

DecimalChars == {"0", "1", "2", "3", "4", "5", "6", "7", "8", "9"}

BaseChars == {"b", "B", "o", "O", "d", "D", "h", "H"}

\* the value of a digit character, 16 for one that is no digit
CharValue(c) ==
    IF \E i \in 1 .. 16 : Digits[i] = c THEN (CHOOSE i \in 1 .. 16 : Digits[i] = c) - 1
    ELSE IF \E i \in 1 .. 6 : UpperDigits[i] = c THEN (CHOOSE i \in 1 .. 6 : UpperDigits[i] = c) + 9
    ELSE 16

\* the number the decimal digits of s spell, as a set of bit positions
RECURSIVE DecimalValue(_)
DecimalValue(s) ==
    IF s = <<>> THEN {}
    ELSE LET front == DecimalValue(SubSeq(s, 1, Len(s) - 1))
             last == s[Len(s)]
         IN IF last \in DecimalChars
            THEN BAdd(BMul(front, NatBits(10)), NatBits(CharValue(last)))
            ELSE front

RadixOf(c) ==
    IF c \in {"b", "B"} THEN 2 ELSE IF c \in {"o", "O"} THEN 8
    ELSE IF c \in {"d", "D"} THEN 10 ELSE 16

\* some digit of s is a number that is not below radix
DigitNotBelow(s, radix) ==
    \E i \in 1 .. Len(s) :
        /\ s[i] \notin {"_", "x", "X", "z", "Z", "?"}
        /\ CharValue(s[i]) >= radix

\* the inputs C9 lists
EmptyString(str) == str = <<>>

SignOnly(str) == str \in {<<"-">>, <<"+">>}

SizeOverflow(str) ==
    HasApostrophe(Unsigned(str)) /\ BLess(NatBits(MAX_BITS), DecimalValue(SizePart(str)))

SizeBadChar(str) ==
    /\ HasApostrophe(Unsigned(str))
    /\ \E i \in 1 .. Len(SizePart(str)) : SizePart(str)[i] \notin DecimalChars \cup {"_"}

SizeZero(str) ==
    /\ HasApostrophe(Unsigned(str))
    /\ \E i \in 1 .. Len(SizePart(str)) : SizePart(str)[i] \in DecimalChars
    /\ DecimalValue(SizePart(str)) = {}

NothingAfter(str) ==
    /\ HasApostrophe(Unsigned(str))
    /\ \/ AfterApostrophe(str) = <<>>
       \/ AfterFlag(str) = <<>>
       \/ Len(AfterFlag(str)) = 1

UnknownBase(str) ==
    /\ HasApostrophe(Unsigned(str))
    /\ AfterFlag(str) # <<>>
    /\ AfterFlag(str)[1] \notin BaseChars

DigitTooLarge(str) ==
    IF HasApostrophe(Unsigned(str))
    THEN /\ Len(AfterFlag(str)) > 1
         /\ AfterFlag(str)[1] \in BaseChars
         /\ DigitNotBelow(SubSeq(AfterFlag(str), 2, Len(AfterFlag(str))),
                          RadixOf(AfterFlag(str)[1]))
    ELSE DigitNotBelow(Unsigned(str), 10)

\* C9: fromString reports an invalid-argument error and produces no value for
\* the empty string, a string that is only a sign, a size that exceeds MAX_BITS,
\* holds a character other than a digit or underscore or is zero, nothing after
\* the apostrophe, the s/S flag or the base letter, a base letter outside
\* bBoOdDhH, and a digit whose value is not below the radix.
C9_InvalidArgument ==
    (op = "fromString"
        /\ \/ EmptyString(text) \/ SignOnly(text)
           \/ SizeOverflow(text) \/ SizeBadChar(text) \/ SizeZero(text)
           \/ NothingAfter(text) \/ UnknownBase(text) \/ DigitTooLarge(text))
        => res = Error

\* a literal with a good size, sign flag and base whose digit is not below the
\* radix was refused
C9_Witness ==
    /\ op = "fromString"
    /\ DigitTooLarge(text)
    /\ HasApostrophe(Unsigned(text))
    /\ ~SizeOverflow(text) /\ ~SizeBadChar(text) /\ ~SizeZero(text)
    /\ res = Error

-----------------------------------------------------------------------------
(* Properties of the arithmetic shift, the four-state comparisons, selection
   and concatenation *)

\* b is a known shift amount above 0 and below the width of a
AmountInside ==
    /\ UnknownBits(b) = {}
    /\ ~(b.signFlag /\ (b.bitWidth - 1) \in ValueBits(b))
    /\ ValueBits(b) # {}
    /\ BLess(ValueBits(b), NatBits(a.bitWidth))

\* plane v of width w moved down by k, the top bit of v filling the top k bits
SignFilled(v, w, k) ==
    {i \in 0 .. (w - 1) : IF i < w - k THEN (i + k) \in v ELSE (w - 1) \in v}

\* C11: for a signed known a of width w and an amount k with 0 < k < w,
\* a.ashr(k) has bit i equal to bit i+k of a for i < w-k and equal to the sign
\* bit of a for every i >= w-k, for every width and both signs of a.
C11_AshrReplicatesSign ==
    (op = ">>>" /\ a.signFlag /\ UnknownBits(a) = {} /\ AmountInside) =>
        IsValue(res, a.bitWidth,
                SignFilled(ValueBits(a), a.bitWidth, BitsNat(ValueBits(b))), {})

\* C12: exactlyEqual(a, b) is true exactly when a and b have the same four-state
\* value at every bit position after width unification; so exactlyEqual(a, a)
\* is true for every a and a known value never equals one with an unknown bit.
C12_ExactlyEqual ==
    op = "===" =>
        res = Logic(LBool(/\ ValueBits(Unified(a)) = ValueBits(Unified(b))
                          /\ UnknownBits(Unified(a)) = UnknownBits(Unified(b))))

\* C13: wildcardEqual(a, b) is X whenever a has an X or Z bit; otherwise it is
\* true exactly when a and b agree at every bit position at which b is known,
\* after width unification.
C13_WildcardEqual ==
    op = "==?" =>
        IF UnknownBits(a) # {} THEN res = Logic("x")
        ELSE res = Logic(LBool(
                 \A i \in Ones(UnifiedWidth) \ UnknownBits(Unified(b)) :
                     (i \in ValueBits(Unified(a))) <=> (i \in ValueBits(Unified(b)))))

\* C14: for msb >= lsb, a(msb, lsb) has width msb-lsb+1; its bit i is bit lsb+i
\* of a, value and unknown state alike, when lsb+i is inside a, and is X when
\* lsb+i is below 0 or not below the width of a.
C14_SliceBits ==
    op = "slice" =>
        /\ res.kind = "int"
        /\ res.v.bitWidth = arg[1] - arg[2] + 1
        /\ ValueBits(res.v) \cup UnknownBits(res.v) \subseteq Ones(res.v.bitWidth)
        /\ \A i \in Ones(arg[1] - arg[2] + 1) :
               IF 0 <= arg[2] + i /\ arg[2] + i < a.bitWidth
               THEN /\ i \in ValueBits(res.v) <=> (arg[2] + i) \in ValueBits(a)
                    /\ i \in UnknownBits(res.v) <=> (arg[2] + i) \in UnknownBits(a)
               ELSE i \in UnknownBits(res.v) /\ i \notin ValueBits(res.v)

\* a range that starts one bit below a two-word value with a set bit 0 and an X
\* top bit, and ends one bit above it
C14_Witness ==
    /\ op = "slice"
    /\ arg = <<a.bitWidth, -1>>
    /\ a.bitWidth > BITS_PER_WORD
    /\ 0 \in ValueBits(a)
    /\ (a.bitWidth - 1) \in UnknownBits(a)
    /\ res.kind = "int"
    /\ res.v.bitWidth = a.bitWidth + 2
    /\ UnknownBits(res.v) = {0, a.bitWidth, a.bitWidth + 1}
    /\ ValueBits(res.v) = {1}

\* C15: conditional(c, a, b) with a known c is a, when c is set, or b, when it
\* is not, at the unified width; with an unknown c its bit i is the bit of a
\* and b where both are known and equal, and X everywhere else, where both are
\* Z included.
C15_Conditional ==
    op = "?:" =>
        LET c == arg[1]
            l == Unified(a)
            r == Unified(b)
            agree == {i \in Ones(UnifiedWidth) :
                         /\ i \notin UnknownBits(l) \cup UnknownBits(r)
                         /\ i \in ValueBits(l) <=> i \in ValueBits(r)}
        IN IF UnknownBits(c) = {}
           THEN IF ValueBits(c) # {}
                THEN IsValue(res, UnifiedWidth, ValueBits(l), UnknownBits(l))
                ELSE IsValue(res, UnifiedWidth, ValueBits(r), UnknownBits(r))
           ELSE IsValue(res, UnifiedWidth, ValueBits(l) \cap agree,
                        Ones(UnifiedWidth) \ agree)

\* the width of operands i .. Len(operands) together
RECURSIVE WidthFrom(_, _)
WidthFrom(operands, i) ==
    IF i > Len(operands) THEN 0 ELSE operands[i].bitWidth + WidthFrom(operands, i + 1)

\* C16: the width of concatenate(operands) is the sum of the operands' widths;
\* the result has unknown bits exactly when some operand has; the first operand
\* holds the most significant bits, and every bit of every operand is copied
\* unchanged in both planes to its place, whether or not the result fits one
\* word and whether or not operands are of width zero; no operands give a value
\* of width zero.
C16_Concatenate ==
    op = "concat" =>
        /\ res.kind = "int"
        /\ res.v.bitWidth = WidthFrom(arg, 1)
        /\ res.v.unknownFlag <=> \E k \in 1 .. Len(arg) : UnknownBits(arg[k]) # {}
        /\ \A k \in 1 .. Len(arg) : \A i \in Ones(arg[k].bitWidth) :
               /\ (WidthFrom(arg, k + 1) + i) \in Low(ValueBits(res.v), res.v.bitWidth)
                      <=> i \in ValueBits(arg[k])
               /\ (WidthFrom(arg, k + 1) + i) \in Low(UnknownBits(res.v), res.v.bitWidth)
                      <=> i \in UnknownBits(arg[k])

\* three operands, one of width zero in the middle, an unknown bit in the last,
\* a set bit in the first, and a result of several words
C16_Witness ==
    /\ op = "concat"
    /\ Len(arg) = 3
    /\ arg[2].bitWidth = 0
    /\ UnknownBits(arg[3]) # {}
    /\ ValueBits(arg[1]) # {}
    /\ arg[1].bitWidth + arg[3].bitWidth > BITS_PER_WORD
    /\ res.kind = "int"
    /\ UnknownBits(res.v) = UnknownBits(arg[3])
    /\ ValueBits(res.v) = BOr(ShiftUp(ValueBits(arg[1]), arg[3].bitWidth), ValueBits(arg[3]))

-----------------------------------------------------------------------------
(* Properties of power, division by zero and literals *)

\* r squared, and multiplied by x if bit i of the exponent e is set, modulo 2^w
PowerStep(r, x, e, i, w) ==
    LET squared == Low(BMul(r, r), w)
    IN IF i \in e THEN Low(BMul(squared, x), w) ELSE squared

\* x to the power of bits lo .. hi of e, taken from the top down, times r to
\* the power 2^(hi - lo + 1), modulo 2^w
RECURSIVE PowerFrom(_, _, _, _, _, _)
PowerFrom(r, x, e, lo, hi, w) ==
    IF lo > hi \/ r # r THEN r
    ELSE IF lo = hi THEN PowerStep(r, x, e, lo, w)
    ELSE PowerFrom(PowerFrom(r, x, e, ((lo + hi) \div 2) + 1, hi, w),
                   x, e, lo, (lo + hi) \div 2, w)

\* x^e modulo 2^w
Power(x, e, w) == PowerFrom({0}, x, e, 0, BitLen(e) - 1, w)

\* b is signed and its top bit is set
NegativeExponent == b.signFlag /\ (b.bitWidth - 1) \in ValueBits(b)

\* C17: for known a of width w and known b, a.pow(b) is, the first case that
\* applies deciding: 1 when a = 0 and b = 0; all X when a = 0 and b is negative;
\* 0 when a = 0; 1 when b = 0 or a = 1; for a signed a = -1, -1 when b is odd
\* and 1 when it is even; 0 when b is signed and negative; a^b modulo 2^w
\* otherwise.
C17_PowCases ==
    (op = "**" /\ ~AnyUnknownBit) =>
        LET w == a.bitWidth
            x == ValueBits(a)
            y == ValueBits(b)
        IN IF x = {} /\ y = {} THEN IsValue(res, w, {0}, {})
           ELSE IF x = {} /\ NegativeExponent THEN AllX(res, w)
           ELSE IF x = {} THEN IsValue(res, w, {}, {})
           ELSE IF y = {} \/ x = {0} THEN IsValue(res, w, {0}, {})
           ELSE IF a.signFlag /\ x = Ones(w)
           THEN IsValue(res, w, IF 0 \in y THEN Ones(w) ELSE {0}, {})
           ELSE IF NegativeExponent THEN IsValue(res, w, {}, {})
           ELSE IsValue(res, w, Power(x, y, w), {})

\* C18: a / b and a % b with a known b = 0 end in no fault and no error: each is
\* the value of the unified width whose bits are all X, whatever a and the
\* widths and signs of the two are.
C18_DivideByZero ==
    (op \in {"/", "%"} /\ ~b.unknownFlag /\ ValueBits(b) = {}) =>
        AllX(res, UnifiedWidth)

\* the remainder of a negative two-word value by an unsigned zero of one word
C18_Witness ==
    /\ op = "%"
    /\ a.bitWidth > BITS_PER_WORD
    /\ a.signFlag
    /\ ~a.unknownFlag
    /\ (a.bitWidth - 1) \in ValueBits(a)
    /\ b.bitWidth <= BITS_PER_WORD
    /\ ~b.signFlag
    /\ ~b.unknownFlag
    /\ ValueBits(b) = {}
    /\ AllX(res, a.bitWidth)

\* the declared sizes of the literals with a power-of-two base, as
\* <<text, width>>
DeclaredSizes ==
    {<<<<"4">>, 4>>, <<<<"8">>, 8>>, <<<<"1", "6">>, 16>>, <<<<"6", "6">>, 66>>}

\* the power-of-two bases, as <<text, bits of a digit>>
ShiftBases == {<<<<"b">>, 1>>, <<<<"o">>, 3>>, <<<<"h">>, 4>>, <<<<"H">>, 4>>}

\* the digit texts of the literals, underscores left out
PlainDigitTexts ==
    {SelectSeq(dg, LAMBDA d : d # "_") : dg \in DigitTexts \cup {<<"x">>, <<"z">>}} \ {<<>>}

\* the digit c is X or Z
UnknownDigit(c) == c \in {"x", "X", "z", "Z", "?"}

\* the digit c is Z
ZDigit(c) == c \in {"z", "Z", "?"}

\* the bits the digit c of shift bits has in the value plane, where a Z digit
\* is all ones and an X digit all zeros, or in the unknown plane
DigitBits(c, shift, unknown) ==
    IF unknown THEN (IF UnknownDigit(c) THEN 0 .. (shift - 1) ELSE {})
    ELSE IF ZDigit(c) THEN 0 .. (shift - 1)
    ELSE IF UnknownDigit(c) THEN {}
    ELSE NatBits(getHexDigitValue(c))

\* the plane the digits dg give, the last digit lowest
DigitPlane(dg, shift, unknown) ==
    UNION {{(Len(dg) - i) * shift + k : k \in DigitBits(dg[i], shift, unknown)} :
           i \in 1 .. Len(dg)}

\* the bits above the digits dg of a value of width w
AboveDigits(dg, shift, w) == (Len(dg) * shift) .. (w - 1)

\* C19: a literal of width w with a power-of-two base and valid digits parses to
\* the value whose bits below the end of the digits are those the digits give
\* and whose bits above it are X when the first digit is X, Z when it is Z, and
\* 0 when it is known; so 4'bx is xxxx and 8'bz is zzzzzzzz.
C19_TopDigitExtends ==
    op = "fromString" =>
        \A sg \in {<<>>, <<"+">>}, sz \in DeclaredSizes, mk \in Marks \ {<<>>},
           bs \in ShiftBases, dg \in PlainDigitTexts :
            (/\ \E given \in DigitTexts \cup {<<"x">>, <<"z">>} :
                   /\ SelectSeq(given, LAMBDA d : d # "_") = dg
                   /\ text = sg \o sz[1] \o mk \o bs[1] \o given
             /\ \A i \in 1 .. Len(dg) :
                   UnknownDigit(dg[i]) \/ getHexDigitValue(dg[i]) < 2 ^ bs[2]
             /\ UnknownDigit(dg[1]) => Len(dg) * bs[2] < sz[2])
            => IsValue(res, sz[2],
                       Low(DigitPlane(dg, bs[2], FALSE), sz[2])
                           \cup (IF ZDigit(dg[1]) THEN AboveDigits(dg, bs[2], sz[2])
                                 ELSE {}),
                       Low(DigitPlane(dg, bs[2], TRUE), sz[2])
                           \cup (IF UnknownDigit(dg[1])
                                 THEN AboveDigits(dg, bs[2], sz[2]) ELSE {}))

\* 66'b?0 parsed: bit 0 is 0 and the 65 bits above it are Z
C19_Witness ==
    /\ op = "fromString"
    /\ text = <<"6", "6", "'", "b", "?", "0">>
    /\ IsValue(res, 66, 1 .. 65, 1 .. 65)

\* the text of n digits x
XDigits(n) == [i \in 1 .. n |-> "x"]

\* C20, as stated: fromString("16'hx") is the 16-bit value whose bits are all X,
\* and toString() of it is 16'hxxxx.
C20_HexText ==
    (op = "resultToString" /\ arg = <<"1", "6", "'", "h", "x">>) =>
        /\ AllX(res, 16)
        /\ text = <<"1", "6", "'", "h">> \o XDigits(4)

\* C20, amended: fromString("16'hx") is the 16-bit value whose bits are all X,
\* and toString() of it, which picks base 2 for a value with unknown bits, is
\* 16'b followed by sixteen x.
C20_BinaryText ==
    (op = "resultToString" /\ arg = <<"1", "6", "'", "h", "x">>) =>
        /\ AllX(res, 16)
        /\ text = <<"1", "6", "'", "b">> \o XDigits(16)

\* 16'hx parsed and formatted, in base 2
C20_Witness ==
    /\ op = "resultToString"
    /\ arg = <<"1", "6", "'", "h", "x">>
    /\ AllX(res, 16)
    /\ Len(text) = 20
    /\ text[4] = "b"

-----------------------------------------------------------------------------
(* Properties of the digits of toString, of sums and shifts, and of the unused
   bits *)

\* the bits per digit of a power-of-two base
ShiftOf(base) == IF base = "Octal" THEN 3 ELSE IF base = "Hex" THEN 4 ELSE 1

\* the positions of digit group g of x that are inside x, counted in the group
GroupBits(x, g, shift) == {k \in 0 .. (shift - 1) : g * shift + k < x.bitWidth}

\* the bits of plane p in digit group g, counted in the group
GroupOf(p, g, shift) == {k \in 0 .. (shift - 1) : (g * shift + k) \in p}

\* the character of digit group g of x: its digit when no bit of it is unknown,
\* x when all are X, z when all are Z, and x in every other case
GroupChar(x, g, shift) ==
    LET v == GroupOf(ValueBits(x), g, shift)
        u == GroupOf(UnknownBits(x), g, shift)
    IN IF u = {} THEN Digits[BitsNat(v) + 1]
       ELSE IF u = GroupBits(x, g, shift) /\ v = u THEN "z"
       ELSE "x"

\* the digits of x from its highest group that is not a known 0 down to group 0
GroupChars(x, shift) ==
    LET used == {g \in 0 .. ((x.bitWidth - 1) \div shift) :
                    GroupOf(ValueBits(x) \cup UnknownBits(x), g, shift) # {}}
        top == Greatest(used)
    IN IF used = {} THEN <<"0">>
       ELSE [i \in 1 .. (top + 1) |-> GroupChar(x, top + 1 - i, shift)]

\* C21: a.toString(base) for base 8 and 16 ends, after the base letter, in the
\* digits of a, where a group of bits prints as its digit when none of them is
\* unknown, as x when all of them are X, as z when all of them are Z, and as x
\* when it mixes known and unknown bits, or X and Z.
C21_DigitGroups ==
    (op = "toStringBase"
        /\ ~(a.signFlag /\ ~a.unknownFlag /\ (a.bitWidth - 1) \in ValueBits(a))) =>
        LET expected == GroupChars(a, ShiftOf(arg[1]))
            n == Len(expected)
        IN /\ Len(text) > n
           /\ text[Len(text) - n] = (IF arg[1] = "Octal" THEN "o" ELSE "h")
           /\ SubSeq(text, Len(text) - n + 1, Len(text)) = expected

\* C22, as stated: wildcardEqual(concatenate([4'b10, 4'bx1]), 8'b????0001) is
\* true.
C22_ScenarioTrue ==
    (op = "concatWildcard" /\ text = <<"4", "'", "b", "1", "0">>
        /\ arg = <<<<"4", "'", "b", "x", "1">>,
                   <<"8", "'", "b", "?", "?", "?", "?", "0", "0", "0", "1">>>>) =>
        res = Logic("1")

\* C22, amended: concatenate([4'b10, 4'bx1]) is 8'b0010xxx1, a left operand
\* with unknown bits, so its wildcardEqual against 8'b????0001 is X.
C22_ScenarioUnknown ==
    (op = "concatWildcard" /\ text = <<"4", "'", "b", "1", "0">>
        /\ arg = <<<<"4", "'", "b", "x", "1">>,
                   <<"8", "'", "b", "?", "?", "?", "?", "0", "0", "0", "1">>>>) =>
        /\ res = Logic("x")
        /\ concatenate(<<fromString(text).v, fromString(arg[1]).v>>)
               = Lit(8, FALSE, {0, 5}, {1, 2, 3})
        /\ fromString(arg[2]).v = Lit(8, FALSE, {0, 4, 5, 6, 7}, {4, 5, 6, 7})

\* the scenario has run and its result is X
C22_Witness ==
    /\ op = "concatWildcard"
    /\ text = <<"4", "'", "b", "1", "0">>
    /\ arg = <<<<"4", "'", "b", "x", "1">>,
               <<"8", "'", "b", "?", "?", "?", "?", "0", "0", "0", "1">>>>
    /\ res = Logic("x")

\* C23: for known a, b and c of one width w, a + b is the sum of the two
\* modulo 2^w, and (a + b) + c and a + (b + c) are one value, the sum of the
\* three modulo 2^w, for widths of one word and of two.
C23_AddModulo ==
    op = "+++" =>
        LET w == a.bitWidth
            ab == Low(BAdd(ValueBits(a), ValueBits(b)), w)
            abc == Low(BAdd(ab, ValueBits(arg[1])), w)
        IN /\ IsValue(Val(arg[2]), w, ab, {})
           /\ IsValue(res, w, abc, {})
           /\ IsValue(Val(arg[3]), w, abc, {})
           /\ res.v = arg[3]

\* two-word operands whose sum with c wraps around: a + b is below a
C23_Witness ==
    /\ op = "+++"
    /\ a.bitWidth > BITS_PER_WORD
    /\ ValueBits(a) = Ones(a.bitWidth)
    /\ ValueBits(b) = {0, 1}
    /\ ValueBits(arg[1]) = {a.bitWidth - 1}
    /\ IsValue(Val(arg[2]), a.bitWidth, {1}, {})
    /\ IsValue(res, a.bitWidth, {1, a.bitWidth - 1}, {})
    /\ res.v = arg[3]

\* C24: for a known a of width w, a.shl(k).lshr(k) is a with its top k bits
\* cleared for every k from 0 to w; a.shl(0) is a, and a.shl(k) is 0 for every
\* k from w on.
C24_ShiftThereAndBack ==
    op = "<<>>" =>
        LET w == a.bitWidth
            k == arg[1]
        IN /\ k = 0 => arg[2] = a /\ res.v = a
           /\ k >= w => IsValue(Val(arg[2]), w, {}, {})
           /\ k <= w => IsValue(res, w, Low(ValueBits(a), w - k), {})
           /\ IsValue(Val(arg[2]), w, Low(ShiftUp(ValueBits(a), k), w), {})

\* a two-word value with its top bit set, shifted by 3 and back
C24_Witness ==
    /\ op = "<<>>"
    /\ arg[1] = 3
    /\ a.bitWidth > BITS_PER_WORD
    /\ {0, a.bitWidth - 1} \subseteq ValueBits(a)
    /\ (a.bitWidth - 1) \notin ValueBits(res.v)
    /\ 0 \in ValueBits(res.v)
    /\ 3 \in ValueBits(arg[2])

\* the bits of the words of plane number k (0 the value plane, 1 the unknown
\* plane) of a value held in a buffer
StoredPlane(x, k) ==
    LET n == getNumWords(x.bitWidth, FALSE)
    IN IF Len(x.pVal) >= (k + 1) * n THEN PlaneOf(x.pVal, k * n, n) ELSE {}

\* no bit at a position >= bitWidth is set in the words of x
UnusedBitsClear(x) ==
    IF x.bitWidth = 0 THEN TRUE
    ELSE IF isSingleWord(x) THEN x.val \subseteq Ones(x.bitWidth)
    ELSE /\ StoredPlane(x, 0) \subseteq Ones(x.bitWidth)
         /\ x.unknownFlag => StoredPlane(x, 1) \subseteq Ones(x.bitWidth)

-----------------------------------------------------------------------------
(* Properties of the analysis manager *)

\* the scopes whose task threw and recorded its exception
Failed == {s \in Scopes : tasks[s] = "failed"}

\* the wait() calls the caller can be in
WaitStates == {"wait1", "wait2", "waitDiag"}

\* C26: however many times analyzeScopeAsync is called for a scope, by the
\* caller or by the tasks on the workers, at most one task is started for it
C26_OneTaskPerScope ==
    \A s \in Scopes : /\ started[s] <= 1
                      /\ (asyncCalls[s] >= 1 => started[s] = 1)

\* analyzeScopeAsync was called twice for a unit by the caller and twice for
\* the body by the tasks, and one task was started for each
C26_Witness ==
    /\ asyncCalls["unit1"] >= 2
    /\ asyncCalls["body"] >= 2
    /\ started["unit1"] = 1
    /\ started["body"] = 1

C28_ResultOnlyWhenAnalyzed ==
    /\ \A s \in Scopes :
          /\ getAnalyzedScope(s) # "null" => tasks[s] \in {"stored", "finished"}
          /\ tasks[s] \in {"queued", "running", "caught", "analyzed", "failed"} =>
                getAnalyzedScope(s) = "null"
    /\ (caller.pc \in {"collect", "tops", "wait2"} \/ (caller.pc = "returned" /\ ~caller.fatal)) =>
          \A i \in 1 .. Len(compilationUnits) :
              getAnalyzedScope(compilationUnits[i]) # "null"
    /\ caller.pc # "assertFailed"

\* analyze is past its first wait() and its collection loop, with the result
\* of every compilation unit, while the body is in the map
C28_Witness ==
    /\ caller.pc = "tops"
    /\ \A i \in 1 .. Len(compilationUnits) :
           getAnalyzedScope(compilationUnits[i]) = "result"
    /\ analyzedScopes["body"] # "absent"


-----------------------------------------------------------------------------
(* Properties of the sign of a slice and of the end of operator< *)

\* C29: the slice x(msb, lsb) is unsigned for every x, single-word or
\* multi-word, known or with unknown bits, signed or unsigned, and for every
\* range, inside x or not
C29_SliceUnsigned ==
    (op = "slice" /\ res.kind = "int") => ~res.v.signFlag

\* C30: operator< returns a result for every pair of operands; the recursion
\* on the negated operands that it takes when both signed operands are
\* negative ends, also when an operand is the most negative value of its width
C30_LessReturns ==
    op = "<" => res.kind = "logic"

=============================================================================
